---------------------------- MODULE Spec2Model ----------------------------
(***************************************************************************)
(* A model of beanstalk-rs: the wire decoder (src/wire/decoder.rs), the    *)
(* framed reader that drives it (tokio_util's Framed, built by             *)
(* wire::framed), and the per-connection session loop                      *)
(* (src/bin/ebeans/main.rs, do_client_loop).                               *)
(*                                                                         *)
(* Bytes are one-character strings; CR and LF are the two bytes of the     *)
(* line terminator.  A byte string is a sequence of bytes.                 *)
(***************************************************************************)
EXTENDS Integers, Sequences, FiniteSets, TLC

(***************************************************************************)
(* Bytes and byte strings                                                  *)
(***************************************************************************)
CR == "\r"
LF == "\n"
SP == " "
CRLF == <<CR, LF>>

Digits == {"0", "1", "2", "3", "4", "5", "6", "7", "8", "9"}

DigitVal(d) ==
    CASE d = "0" -> 0 [] d = "1" -> 1 [] d = "2" -> 2 [] d = "3" -> 3
      [] d = "4" -> 4 [] d = "5" -> 5 [] d = "6" -> 6 [] d = "7" -> 7
      [] d = "8" -> 8 [] d = "9" -> 9

\* The bytes of s after its first n (Buf::advance / the rest after split_to).
Drop(s, n) == SubSeq(s, n + 1, Len(s))

\* The first n bytes of s (the part split_to returns).
Take(s, n) == SubSeq(s, 1, n)

\* n copies of the byte b.
Rep(b, n) == [i \in 1..n |-> b]

RECURSIVE Concat(_)
Concat(ss) == IF ss = <<>> THEN <<>> ELSE Head(ss) \o Concat(Tail(ss))


(***************************************************************************)
(* Commands and responses (src/wire/protocol.rs)                           *)
(*                                                                         *)
(* A command is a record: its variant name, its numeric fields in wire     *)
(* order and its tube name (empty when it has none).                       *)
(***************************************************************************)
Cmd(name, nums, tube) == [name |-> name, nums |-> nums, tube |-> tube]

NoCmd == Cmd("-", <<>>, <<>>)

\* n_bytes of a Put command: its fourth field.
NBytes(cmd) == cmd.nums[4]

\* The verbs of the wire protocol, spelt in bytes.
VerbPut == <<"p", "u", "t">>
VerbUse == <<"u", "s", "e">>
VerbQuit == <<"q", "u", "i", "t">>
VerbReserve == <<"r", "e", "s", "e", "r", "v", "e">>
VerbDelete == <<"d", "e", "l", "e", "t", "e">>
VerbPauseTube == <<"p", "a", "u", "s", "e", "-", "t", "u", "b", "e">>
VerbStatsTube == <<"s", "t", "a", "t", "s", "-", "t", "u", "b", "e">>

(***************************************************************************)
(* The command parser, TryFrom<&[u8]> for Command.  It takes one command   *)
(* line without its CRLF and gives a Command, or the Response that refuses *)
(* the line.  Fields are separated by single spaces; a number is a run of  *)
(* decimal digits within the range of its type; a tube name is 1 to 200    *)
(* bytes of [A-Za-z0-9+/;.$_()-] not starting with "-".                    *)
(***************************************************************************)
MaxTubeNameLen == 200

\* The largest u32, 4294967295, and u64, 18446744073709551615, digit by digit.
MaxU32Digits == <<"4", "2", "9", "4", "9", "6", "7", "2", "9", "5">>
MaxU64Digits ==
    <<"1", "8", "4", "4", "6", "7", "4", "4", "0", "7",
      "3", "7", "0", "9", "5", "5", "1", "6", "1", "5">>

TubeNameBytes ==
    Digits \cup {"a", "b", "c", "d", "e", "f", "g", "h", "i", "j", "k", "l",
                 "m", "n", "o", "p", "q", "r", "s", "t", "u", "v", "w", "x",
                 "y", "z", "+", "/", ";", ".", "$", "_", "(", ")", "-"}

\* a <= b for two digit strings of the same length.
DigitsLeq(a, b) ==
    \/ a = b
    \/ \E i \in 1..Len(a) :
          /\ DigitVal(a[i]) < DigitVal(b[i])
          /\ \A j \in 1..(i - 1) : a[j] = b[j]

\* Whether tok is a decimal number no larger than the one max spells.
IsNumber(tok, max) ==
    /\ Len(tok) >= 1
    /\ \A i \in 1..Len(tok) : tok[i] \in Digits
    /\ \/ Len(tok) < Len(max)
       \/ Len(tok) = Len(max) /\ DigitsLeq(tok, max)

RECURSIVE NumVal(_)
NumVal(tok) ==
    IF tok = <<>> THEN 0
    ELSE 10 * NumVal(Take(tok, Len(tok) - 1)) + DigitVal(tok[Len(tok)])

IsTubeName(tok) ==
    /\ Len(tok) >= 1
    /\ Len(tok) <= MaxTubeNameLen
    /\ tok[1] # "-"
    /\ \A i \in 1..Len(tok) : tok[i] \in TubeNameBytes

\* The index of the first byte b of s, or 0 when there is none.
IndexOf(s, b) ==
    LET hits == {i \in 1..Len(s) : s[i] = b} IN
    IF hits = {} THEN 0 ELSE CHOOSE i \in hits : \A j \in hits : i <= j

\* The fields of a line: what its single spaces separate.
RECURSIVE Fields(_)
Fields(line) ==
    LET i == IndexOf(line, SP) IN
    IF i = 0 THEN <<line>>
    ELSE <<Take(line, i - 1)>> \o Fields(Drop(line, i))

ParseOk(cmd) == [ok |-> TRUE, cmd |-> cmd, resp |-> "-"]

ParseErr(resp) == [ok |-> FALSE, cmd |-> NoCmd, resp |-> resp]

\* A command whose fields f, after the verb and tubes tube names (0 or 1),
\* are numbers, the i-th no larger than maxs[i].
ParseArgs(f, name, tubes, maxs) ==
    IF /\ Len(f) = 1 + tubes + Len(maxs)
       /\ tubes = 1 => IsTubeName(f[2])
       /\ \A i \in 1..Len(maxs) : IsNumber(f[1 + tubes + i], maxs[i])
    THEN ParseOk(Cmd(name,
                     [i \in 1..Len(maxs) |-> NumVal(f[1 + tubes + i])],
                     IF tubes = 1 THEN f[2] ELSE <<>>))
    ELSE ParseErr("BAD_FORMAT")

ParseCommandLine(line) ==
    LET f == Fields(line)
        verb == f[1]
    IN  CASE verb = VerbPut ->
                ParseArgs(f, "Put", 0, <<MaxU32Digits, MaxU32Digits,
                                         MaxU32Digits, MaxU32Digits>>)
          [] verb = VerbUse -> ParseArgs(f, "Use", 1, <<>>)
          [] verb = VerbQuit -> ParseArgs(f, "Quit", 0, <<>>)
          [] verb = VerbReserve -> ParseArgs(f, "Reserve", 0, <<>>)
          [] verb = VerbDelete -> ParseArgs(f, "Delete", 0, <<MaxU64Digits>>)
          [] verb = VerbPauseTube ->
                ParseArgs(f, "PauseTube", 1, <<MaxU32Digits>>)
          [] verb = VerbStatsTube -> ParseArgs(f, "StatsTube", 1, <<>>)
          [] OTHER -> ParseErr("UNKNOWN_COMMAND")

(***************************************************************************)
(* Client events (src/wire/events.rs) and the decoder's results            *)
(***************************************************************************)
EvCommand(cmd) == [t |-> "Command", cmd |-> cmd, data |-> <<>>]

EvPutChunk(data) == [t |-> "PutChunk", cmd |-> NoCmd, data |-> data]

EvPutEnd == [t |-> "PutEnd", cmd |-> NoCmd, data |-> <<>>]

EvDiscarded == [t |-> "Discarded", cmd |-> NoCmd, data |-> <<>>]

NoEvent == [t |-> "-", cmd |-> NoCmd, data |-> <<>>]

\* Result<Option<Item>, Error>: Ok(None), Ok(Some(ev)), Err(Client(resp)) and
\* Err(IO(why)).
OkNone == [k |-> "None", ev |-> NoEvent, resp |-> "-"]

OkSome(ev) == [k |-> "Some", ev |-> ev, resp |-> "-"]

ErrClient(resp) == [k |-> "Client", ev |-> NoEvent, resp |-> resp]

ErrIO(why) == [k |-> "IO", ev |-> NoEvent, resp |-> why]

(***************************************************************************)
(* The decoder (src/wire/decoder.rs)                                       *)
(*                                                                         *)
(* Its state is one of ParseCommand, ParseJob{remaining}, DiscardToNewline;*)
(* remaining is kept 0 outside ParseJob.                                   *)
(***************************************************************************)
ParseCommand == [st |-> "ParseCommand", remaining |-> 0]

ParseJob(remaining) == [st |-> "ParseJob", remaining |-> remaining]

DiscardToNewline == [st |-> "DiscardToNewline", remaining |-> 0]

\* The longest command line, its CRLF included: the bytes ParseCommand inspects.
MaxCommandLen == 224

Min(a, b) == IF a <= b THEN a ELSE b

\* The windows iter().take(n).tuple_windows() yields, by their 0-based index,
\* that hold CR then LF.
CrlfWindows(src, n) ==
    {i \in 0..(Min(n, Len(src)) - 2) : src[i + 1] = CR /\ src[i + 2] = LF}

\* find_position: the index of the first such window, or -1 for None.
FindCrlf(src, n) ==
    LET w == CrlfWindows(src, n) IN
    IF w = {} THEN -1 ELSE CHOOSE i \in w : \A j \in w : i <= j

\* What one call of decode gives: the decoder's new state, what is left of the
\* buffer, the result, and the line handed to the command parser (if any).
Decoded(dec, src, res, line, parsed) ==
    [dec |-> dec, src |-> src, res |-> res, line |-> line, parsed |-> parsed]

\* A window one byte short: a decoder that looks for the CRLF in take(223).
CommandWindowShort == MaxCommandLen - 1

\* The window ParseCommand searches for the line's CRLF.
CommandWindow == MaxCommandLen

\* A decoder that gives up only beyond the 224th byte.
CommandTooLongStrict(src) == Len(src) > MaxCommandLen

\* Whether ParseCommand, having found no CRLF, gives up on the line.
CommandTooLong(src) == Len(src) >= MaxCommandLen

\* Decoder::ParseCommand
DecodeParseCommand(src) ==
    LET idx == FindCrlf(src, CommandWindow) IN
    IF idx >= 0
    THEN LET cmd == Take(src, idx)
             rest == Drop(src, idx + 2)
             parse == ParseCommandLine(cmd)
         IN  IF ~parse.ok
             THEN Decoded(ParseCommand, rest, ErrClient(parse.resp), cmd, TRUE)
             ELSE IF parse.cmd.name = "Put"
             THEN Decoded(ParseJob(NBytes(parse.cmd)), rest,
                          OkSome(EvCommand(parse.cmd)), cmd, TRUE)
             ELSE Decoded(ParseCommand, rest, OkSome(EvCommand(parse.cmd)),
                          cmd, TRUE)
    ELSE IF CommandTooLong(src)
         THEN Decoded(DiscardToNewline, src, ErrClient("BAD_FORMAT"),
                      <<>>, FALSE)
         ELSE Decoded(ParseCommand, src, OkNone, <<>>, FALSE)

\* A decoder that looks at the CR only.
IsJobTerminatorCrOnly(src) == src[1] = CR

\* Whether the two bytes after a job's body are its terminator.
IsJobTerminator(src) == src[1] = CR /\ src[2] = LF

\* A decoder that takes the end of its input for the terminator.
DecodeParseJobEndEager(src) ==
    IF Len(src) < 2
    THEN Decoded(ParseCommand, <<>>, OkSome(EvPutEnd), <<>>, FALSE)
    ELSE IF IsJobTerminator(src)
    THEN Decoded(ParseCommand, Drop(src, 2), OkSome(EvPutEnd), <<>>, FALSE)
    ELSE Decoded(DiscardToNewline, src, ErrClient("EXPECTED_CRLF"),
                 <<>>, FALSE)

\* A decoder that drops the bytes it cannot yet judge.
DecodeParseJobEndDropping(src) ==
    IF Len(src) < 2
    THEN Decoded(ParseJob(0), <<>>, OkNone, <<>>, FALSE)
    ELSE IF IsJobTerminator(src)
    THEN Decoded(ParseCommand, Drop(src, 2), OkSome(EvPutEnd), <<>>, FALSE)
    ELSE Decoded(DiscardToNewline, src, ErrClient("EXPECTED_CRLF"),
                 <<>>, FALSE)

\* Decoder::ParseJob { remaining: 0 }
DecodeParseJobEnd(src) ==
    IF Len(src) < 2
    THEN Decoded(ParseJob(0), src, OkNone, <<>>, FALSE)
    ELSE IF IsJobTerminator(src)
    THEN Decoded(ParseCommand, Drop(src, 2), OkSome(EvPutEnd), <<>>, FALSE)
    ELSE Decoded(DiscardToNewline, src, ErrClient("EXPECTED_CRLF"),
                 <<>>, FALSE)

\* A decoder that takes the whole buffer, whatever remains of the body.
TakeLenWholeBuffer(remaining, src) == Len(src)

\* How many bytes of the buffer the next PutChunk takes.
TakeLen(remaining, src) == Min(remaining, Len(src))

\* A decoder that cuts a chunk from whatever the buffer holds, nothing included.
DecodeParseJobEmptyChunk(remaining, src) ==
    LET take_len == TakeLen(remaining, src) IN
    Decoded(ParseJob(remaining - take_len), Drop(src, take_len),
            OkSome(EvPutChunk(Take(src, take_len))), <<>>, FALSE)

\* Decoder::ParseJob { remaining }, remaining > 0
DecodeParseJob(remaining, src) ==
    IF Len(src) = 0
    THEN Decoded(ParseJob(remaining), src, OkNone, <<>>, FALSE)
    ELSE LET take_len == TakeLen(remaining, src) IN
         Decoded(ParseJob(remaining - take_len), Drop(src, take_len),
                 OkSome(EvPutChunk(Take(src, take_len))), <<>>, FALSE)

\* What DiscardToNewline returns once it has dropped what it could; found says
\* whether the CRLF was among it.
DiscardResult(found) == OkSome(EvDiscarded)

\* How many bytes DiscardToNewline drops when the buffer holds no CRLF.
DiscardKeepingLast(src) == Len(src) - 1

\* Decoder::DiscardToNewline
DecodeDiscardToNewline(src) ==
    IF Len(src) = 0
    THEN Decoded(DiscardToNewline, src, OkNone, <<>>, FALSE)
    ELSE LET idx == FindCrlf(src, Len(src)) IN
         IF idx >= 0
         THEN Decoded(ParseCommand, Drop(src, idx + 2), DiscardResult(TRUE),
                      <<>>, FALSE)
         ELSE Decoded(DiscardToNewline, Drop(src, DiscardKeepingLast(src)),
                      DiscardResult(FALSE), <<>>, FALSE)

\* Decoder::decode
Decode(dec, src) ==
    CASE dec.st = "ParseCommand" -> DecodeParseCommand(src)
      [] dec.st = "ParseJob" /\ dec.remaining = 0 -> DecodeParseJobEnd(src)
      [] dec.st = "ParseJob" /\ dec.remaining # 0 ->
            DecodeParseJob(dec.remaining, src)
      [] dec.st = "DiscardToNewline" -> DecodeDiscardToNewline(src)

\* A decode_eof that lets the stream end with bytes left in the buffer.
DecodeEofLenient(dec, src) == Decode(dec, src)

\* Decoder::decode_eof, the codec's default: decode, and if that gives nothing
\* while bytes are left, an IO error.
DecodeEof(dec, src) ==
    LET d == Decode(dec, src) IN
    IF d.res.k = "None" /\ Len(src) # 0
    THEN [d EXCEPT !.res = ErrIO("bytes remaining on stream")]
    ELSE d

(***************************************************************************)
(* State                                                                   *)
(***************************************************************************)
VARIABLES
    stream,     \* every byte the client sends on the connection, in order
    pos,        \* how many of them the framed reader has read so far
    buf,        \* the framed reader's read buffer (decode's src)
    dec,        \* the decoder
    fr,         \* the framed reader's flags: eof, is_readable, has_errored
    events,     \* history: every item framed.next() has returned so far
    call,       \* history: the last call of decode, before and after
    spin,       \* the last item came from a decode call that changed nothing
    pc,         \* the session: where do_client_loop is suspended
    sending,    \* the session: the response framed.send() is writing
    out,        \* the session: what has been written to the connection
    cancel,     \* the CancellationToken: whether shutdown has been signalled
    conn_result,\* the session: the value its loop broke with
    result,     \* the session: what do_client_loop returned
    server,     \* the Server: its job store and its queues
    op,         \* history: the last operation on the Server, and the one before
    handed,     \* history: the positions put_ready and put_buried returned
    dst,        \* the encoder: the write buffer encode appends to
    encoded,    \* history: every item encode was called with, and its outcome
    tasks,      \* main: the session tasks accept_loop has spawned
    holders,    \* main: who holds a Sender of the shutdown channel
    exit_code   \* main: the exit code, once accept_loop has returned

framing == <<stream, pos, buf, dec, fr, events, call, spin>>

session == <<pc, sending, out, cancel, conn_result, result>>

broker == <<server, op, handed>>

encoding == <<dst, encoded>>

runtime == <<tasks, holders, exit_code>>

vars == <<stream, pos, buf, dec, fr, events, call, spin,
          pc, sending, out, cancel, conn_result, result, server, op, handed,
          dst, encoded,
          tasks, holders, exit_code>>

(***************************************************************************)
(* The job store and the tubes (src/types/tube.rs, states.rs, job.rs)      *)
(*                                                                         *)
(* A JobState is a record [s, pos, t]: Ready{pos}, Delayed{until: t},      *)
(* Reserved{deadline: t}, Buried{pos}.  The maps are functions from their  *)
(* keys; an Instant is a number.  Of a Job only pri and state are kept: no *)
(* code reads or writes its other fields.                                  *)
(***************************************************************************)
Ready(rp) == [s |-> "Ready", pos |-> rp, t |-> 0]

Delayed(until) == [s |-> "Delayed", pos |-> 0, t |-> until]

Reserved(deadline) == [s |-> "Reserved", pos |-> 0, t |-> deadline]

Buried(bp) == [s |-> "Buried", pos |-> bp, t |-> 0]

\* The entry of Server::jobs: (QueueName, Job)
JobEntry(qn, pri, state) == [qn |-> qn, pri |-> pri, state |-> state]

\* A map without the key k.
Without(map, k) == [x \in DOMAIN map \ {k} |-> map[x]]

\* The outcome of a TubeState method: the TubeState it leaves, and whether it
\* panicked (an unwrap of None, a failed assert!), in which case it left the
\* TubeState as it was.
TubeDone(ts) == [ts |-> ts, panic |-> FALSE]

TubePanic(ts) == [ts |-> ts, panic |-> TRUE]

\* A take_ready that counts a job out whether or not it was there.
take_ready_uncounted(ts, rp) ==
    TubeDone([ts EXCEPT
        !.ready = Without(ts.ready, rp),
        !.stats.current_jobs_ready = ts.stats.current_jobs_ready - 1])

\* TubeState::take_ready
take_ready(ts, rp) ==
    IF rp \notin DOMAIN ts.ready
    THEN TubePanic(ts)
    ELSE TubeDone([ts EXCEPT
            !.ready = Without(ts.ready, rp),
            !.stats.current_jobs_ready = ts.stats.current_jobs_ready - 1])

\* A TubeState method that returned the position p.
TubeGave(ts, p) == [ts |-> ts, panic |-> FALSE, ret |-> p]

\* BTreeMap::insert: the map with v at key k, whatever was there before.
Insert(map, k, v) == [x \in DOMAIN map \cup {k} |-> IF x = k THEN v ELSE map[x]]

\* A put_ready that leaves ready_sn where it is.
NextReadyPosStuck(rp) == rp

\* ReadyPos(self.ready_sn.0 + 1)
NextReadyPos(rp) == rp + 1

\* TubeState::put_ready.  The assert! fails when the key rp was present;
\* ready_sn is advanced and the entry replaced before it.
put_ready(ts, job_id) ==
    LET rp == ts.ready_sn
        put == [ts EXCEPT !.ready_sn = NextReadyPos(ts.ready_sn),
                          !.ready = Insert(ts.ready, rp, job_id)]
    IN  IF rp \in DOMAIN ts.ready
        THEN TubePanic(put)
        ELSE TubeGave([put EXCEPT !.stats.current_jobs_ready =
                            ts.stats.current_jobs_ready + 1], rp)

\* A put_buried that leaves buried_sn where it is.
NextBuriedPosStuck(bp) == bp

\* BuriedPos(self.buried_sn.0 + 1)
NextBuriedPos(bp) == bp + 1

\* TubeState::put_buried
put_buried(ts, job_id) ==
    LET bp == ts.buried_sn
        put == [ts EXCEPT !.buried_sn = NextBuriedPos(ts.buried_sn),
                          !.buried = Insert(ts.buried, bp, job_id)]
    IN  IF bp \in DOMAIN ts.buried
        THEN TubePanic(put)
        ELSE TubeGave([put EXCEPT !.stats.current_jobs_buried =
                            ts.stats.current_jobs_buried + 1], bp)

\* TubeState::put_delayed.  BTreeSet::insert returns false, and the assert!
\* fails, when the pair was in the set.
put_delayed(ts, job_id, until) ==
    IF <<until, job_id>> \in ts.delayed
    THEN TubePanic(ts)
    ELSE TubeDone([ts EXCEPT
            !.delayed = ts.delayed \cup {<<until, job_id>>},
            !.stats.current_jobs_delayed = ts.stats.current_jobs_delayed + 1])

\* TubeState::take_buried
take_buried(ts, bp) ==
    IF bp \notin DOMAIN ts.buried
    THEN TubePanic(ts)
    ELSE TubeDone([ts EXCEPT
            !.buried = Without(ts.buried, bp),
            !.stats.current_jobs_buried = ts.stats.current_jobs_buried - 1])

\* The outcome of a Server method: the Server it leaves and what it returns:
\* "Some" (the job), "None", or "panic".
ServerDone(srv, ret) == [server |-> srv, ret |-> ret]

\* A reserve_by_id that takes a buried job for a ready one.
IsReadyOrBuried(state) == state.s \in {"Ready", "Buried"}

\* let JobState::Ready { pos } = job.state else { return None }
IsReady(state) == state.s = "Ready"

\* Server::reserve_by_id
reserve_by_id(srv, id) ==
    IF id \notin DOMAIN srv.jobs
    THEN ServerDone(srv, "None")
    ELSE LET qn == srv.jobs[id].qn
             state == srv.jobs[id].state
         IN  IF ~IsReady(state)
             THEN ServerDone(srv, "None")
             ELSE IF qn \notin DOMAIN srv.queues
             THEN ServerDone(srv, "panic")
             ELSE LET taken == take_ready(srv.queues[qn], state.pos) IN
                  IF taken.panic
                  THEN ServerDone(srv, "panic")
                  ELSE ServerDone([srv EXCEPT !.queues[qn] = taken.ts], "Some")

\* Server::release: false for an id that is not in the job store; todo!()
\* panics for every other.
release(srv, id) ==
    IF id \notin DOMAIN srv.jobs
    THEN ServerDone(srv, "false")
    ELSE ServerDone(srv, "panic")

\* Server::reserve_by_queue: its body is todo!(), which panics.
reserve_by_queue(srv, qs) == ServerDone(srv, "panic")

\* No Server: do_client_loop and the decoder's tests construct none.
NoServer == [jobs |-> <<>>, queues |-> <<>>]

\* The last call: the method, its job id, what else the caller asked for (the
\* QueueSet of reserve_by_queue, the priority of a release), what it
\* returned, the Server before it, and the call before it.
NoOp == [name |-> "-", id |-> 0, arg |-> 0, ret |-> "-", before |-> NoServer,
         prev |-> [name |-> "-", id |-> 0, ret |-> "-"]]

\* No position handed out yet.
NoHanded == [ready |-> <<>>, buried |-> <<>>]

InitNoServer == server = NoServer /\ op = NoOp /\ handed = NoHanded

\* No Encoder at work: nothing encoded, nothing in a write buffer.
InitNoEncoder == dst = <<>> /\ encoded = <<>>

\* No accept loop either: no task, no Sender, no exit code.
InitNoRuntime == tasks = <<>> /\ holders = {} /\ exit_code = "-"

(***************************************************************************)
(* The framed reader: Framed<T, Codec>::poll_next, as wire::framed builds  *)
(* it.  Its loop is taken one step at a time; a step either returns an     *)
(* item to the caller of framed.next() or goes round the loop.             *)
(***************************************************************************)
\* Option<Result<Event, Error>>: Some(Ok(ev)), Some(Err(e)) and None.
ItemOk(ev) == [k |-> "Some", ev |-> ev, resp |-> "-"]

ItemEnd == [k |-> "End", ev |-> NoEvent, resp |-> "-"]

\* No item: the step goes round poll_next's loop.
NoItem == [k |-> "-", ev |-> NoEvent, resp |-> "-"]

NoCall ==
    [st0 |-> ParseCommand, src0 |-> <<>>, at_eof |-> FALSE,
     dec |-> ParseCommand, src |-> <<>>, res |-> OkNone, line |-> <<>>,
     parsed |-> FALSE]

\* The decode call poll_next makes on a readable buffer.
FrameDecoded == IF fr.eof THEN DecodeEof(dec, buf) ELSE Decode(dec, buf)

\* The record of that call.
CallOf(d) ==
    [st0 |-> dec, src0 |-> buf, at_eof |-> fr.eof,
     dec |-> d.dec, src |-> d.src, res |-> d.res, line |-> d.line,
     parsed |-> d.parsed]

\* has_errored: the item after an error is None, and reading resumes.
FrameErroredItem == ItemEnd

FrameErrored ==
    /\ fr.has_errored
    /\ fr' = [fr EXCEPT !.is_readable = FALSE, !.has_errored = FALSE]
    /\ UNCHANGED <<stream, pos, buf, dec, call, spin>>

\* is_readable: decode (decode_eof once the stream has ended).
FrameDecodeItem ==
    LET d == FrameDecoded IN
    CASE d.res.k = "Some" -> ItemOk(d.res.ev)
      [] d.res.k \in {"Client", "IO"} -> d.res
      [] d.res.k = "None" -> IF fr.eof THEN ItemEnd ELSE NoItem

FrameDecode ==
    /\ ~fr.has_errored
    /\ fr.is_readable
    /\ ~spin
    /\ LET d == FrameDecoded IN
        /\ dec' = d.dec
        /\ buf' = d.src
        /\ call' = CallOf(d)
        /\ spin' = (d.res.k = "Some" /\ d.dec = dec /\ d.src = buf)
        /\ fr' = CASE d.res.k \in {"Client", "IO"} ->
                        [fr EXCEPT !.has_errored = TRUE]
                   [] d.res.k = "None" -> [fr EXCEPT !.is_readable = FALSE]
                   [] OTHER -> fr
    /\ UNCHANGED <<stream, pos>>

\* not readable: read n > 0 bytes from the connection.
FrameRead(n) ==
    /\ ~fr.has_errored
    /\ ~fr.is_readable
    /\ n >= 1
    /\ pos + n <= Len(stream)
    /\ buf' = buf \o SubSeq(stream, pos + 1, pos + n)
    /\ pos' = pos + n
    /\ fr' = [fr EXCEPT !.eof = FALSE, !.is_readable = TRUE]
    /\ UNCHANGED <<stream, dec, call, spin>>

\* not readable: read 0 bytes, the client has closed its side.
FrameReadEofItem == IF fr.eof THEN ItemEnd ELSE NoItem

FrameReadEof ==
    /\ ~fr.has_errored
    /\ ~fr.is_readable
    /\ pos = Len(stream)
    /\ fr' = IF fr.eof THEN fr
             ELSE [fr EXCEPT !.eof = TRUE, !.is_readable = TRUE]
    /\ UNCHANGED <<stream, pos, buf, dec, call, spin>>

\* not readable: the read fails.
FrameReadErrItem == ErrIO("read")

FrameReadErr ==
    /\ ~fr.has_errored
    /\ ~fr.is_readable
    /\ fr' = [fr EXCEPT !.has_errored = TRUE]
    /\ UNCHANGED <<stream, pos, buf, dec, call, spin>>

\* An item as events keeps it: with how many bytes of the stream the decoder
\* had consumed when the item was returned.
Kept(item) == [item |-> item, at |-> pos' - Len(buf')]

\* The sizes a read may have: up to MaxRead bytes, or all that is in flight.
MaxRead == 2

ReadSizes == (1..MaxRead) \cup {Len(stream) - pos}

(***************************************************************************)
(* The byte streams a client may send                                      *)
(***************************************************************************)
\* The longest job body a put of the model announces.
MaxBody == 2

Line(l) == l \o CRLF

DigitOf(n) == CHOOSE d \in Digits : DigitVal(d) = n

UseLine == Line(VerbUse \o <<SP, "a">>)

QuitLine == Line(VerbQuit)

\* put 0 0 1 <n>
PutLine(n) == Line(VerbPut \o <<SP, "0", SP, "0", SP, "1", SP, DigitOf(n)>>)

\* A line the parser refuses: an unknown verb, and a use without its tube.
UnknownLine == Line(<<"z", "z">>)

NoTubeLine == Line(VerbUse)

\* Every byte string of at most n bytes over the bytes of B.
SeqsUpTo(B, n) == UNION {[1..m -> B] : m \in 0..n}

\* A put of n bytes followed by whatever the client sends instead of, or as,
\* its body and terminator: short, exact, with CR and LF inside, unterminated.
PutStreams ==
    UNION {{PutLine(n) \o x : x \in SeqsUpTo({"a", CR, LF}, n + 2)} :
           n \in 0..MaxBody}

\* pause-tube <200 bytes> <d digits>: a line of 212 + d bytes and its CRLF.
PauseLine(d) ==
    Line(VerbPauseTube \o <<SP>> \o Rep("t", MaxTubeNameLen) \o <<SP, "1">>
         \o Rep("0", d - 1))

\* Lines around the longest one allowed, and input with no CRLF in reach.
LongStreams ==
    {Line(Rep("x", t - 2)) : t \in (MaxCommandLen - 1)..(MaxCommandLen + 2)}
    \cup {PauseLine(d) : d \in 9..11}
    \cup {Rep("x", t) : t \in (MaxCommandLen - 1)..(MaxCommandLen + 1)}
    \cup {Rep("x", MaxCommandLen - 1) \o <<CR>>,
          Rep("x", MaxCommandLen) \o <<CR>>}

\* Whole lines: one command, and the lines the parser refuses.
ShortLines == {UseLine, QuitLine, UnknownLine, NoTubeLine}

\* A whole put of one byte.
PutOne == PutLine(1) \o <<"a">> \o CRLF

\* What follows the first part: nothing, a command, the start of one, a put.
Seconds == {<<>>, UseLine, <<"u", "s">>, PutOne}

Streams ==
    {a \o b : a \in ShortLines, b \in Seconds}
    \cup {a \o b : a \in PutStreams \cup LongStreams, b \in {<<>>, UseLine}}

\* The streams the sessions of the model are sent: the same lines, puts whose
\* bodies are too short, exact or too long, and the longest lines.
SessionPuts ==
    {PutLine(n) \o Rep("a", m) \o t :
        n \in 0..MaxBody, m \in 0..MaxBody, t \in {<<>>, CRLF}}

SessionLong ==
    {Line(Rep("x", MaxCommandLen - 2)), Rep("x", MaxCommandLen), PauseLine(10)}

SessionStreams ==
    {a \o b : a \in ShortLines, b \in Seconds}
    \cup {a \o b : a \in SessionPuts \cup SessionLong, b \in {<<>>, UseLine}}

(***************************************************************************)
(* A test's reader: it calls framed.next() again and again and keeps every *)
(* item, until the stream has ended (the tests of src/wire/decoder.rs).    *)
(***************************************************************************)
TestKeep(item) ==
    /\ events' = IF item = NoItem THEN events ELSE Append(events, Kept(item))
    /\ pc' = IF item.k = "End" /\ ~fr.has_errored THEN "test_end" ELSE "test"
    /\ UNCHANGED <<sending, out, cancel, conn_result, result>>
    /\ UNCHANGED broker
    /\ UNCHANGED encoding
    /\ UNCHANGED runtime

TestErrored == pc = "test" /\ FrameErrored /\ TestKeep(FrameErroredItem)

TestDecode == pc = "test" /\ FrameDecode /\ TestKeep(FrameDecodeItem)

TestRead ==
    /\ pc = "test"
    /\ \E n \in ReadSizes : FrameRead(n)
    /\ TestKeep(NoItem)

TestReadEof == pc = "test" /\ FrameReadEof /\ TestKeep(FrameReadEofItem)

InitFraming ==
    /\ pos = 0
    /\ buf = <<>>
    /\ dec = ParseCommand
    /\ fr = [eof |-> FALSE, is_readable |-> FALSE, has_errored |-> FALSE]
    /\ events = <<>>
    /\ call = NoCall
    /\ spin = FALSE

InitDecoder ==
    /\ stream \in Streams
    /\ InitFraming
    /\ pc = "test"
    /\ sending = "-"
    /\ out = <<>>
    /\ cancel = FALSE
    /\ conn_result = "-"
    /\ result = "-"
    /\ InitNoServer
    /\ InitNoEncoder
    /\ InitNoRuntime

NextDecoder == TestErrored \/ TestDecode \/ TestRead \/ TestReadEof

SpecDecoder == InitDecoder /\ [][NextDecoder]_vars

(***************************************************************************)
(* The session: do_client_loop (src/bin/ebeans/main.rs)                    *)
(*                                                                         *)
(* pc is the await the session is suspended at: "next" (framed.next(), or  *)
(* the shutdown signal), "send_client", "send_bad" and "send_resp" (the    *)
(* three framed.send() calls), "shutdown" (the connection's shutdown), and *)
(* "done" once the function has returned and the connection is dropped.    *)
(***************************************************************************)
\* What has been written: the response, whether all of it went out, and which
\* item of events it answers.
Written(resp, full) == [resp |-> resp, full |-> full, ev |-> Len(events)]

\* match cmd { _ => Response::InternalError }
Respond(cmd) == "INTERNAL_ERROR"

\* The response to an event that is not a command.
RespondOther(ev) == "BAD_FORMAT"

\* Where the session goes with the item framed.next() gave it: pc, the
\* response to send and the value the loop breaks with.
Handled(p, s, c) == [pc |-> p, sending |-> s, conn_result |-> c]

\* A session that sends the response and goes on with its loop.
OnClientErrorResumes(resp) == Handled("send_bad", resp, conn_result)

\* What the session does after the decoder has refused the input.
OnClientError(resp) == Handled("send_client", resp, conn_result)

\* A session that tells the client about the end of its stream.
OnStreamEndAnswers(item) == Handled("send_client", "BAD_FORMAT", conn_result)

\* What the session does when the stream has ended (None) or failed (IO):
\* break Ok(()) and break Err(e).
OnStreamEnd(item) ==
    Handled("shutdown", sending, IF item.k = "End" THEN "Ok" ELSE "Err")

\* The largest job the server accepts (--max-job-size), as the session is
\* given it.
max_job_size == 1

Dispatch(item) ==
    CASE item = NoItem -> Handled("next", sending, conn_result)
      [] item.k \in {"End", "IO"} -> OnStreamEnd(item)
      [] item.k = "Client" -> OnClientError(item.resp)
      [] item.k = "Some" /\ item.ev.t = "Discarded" ->
            Handled("next", sending, conn_result)
      [] item.k = "Some" /\ item.ev.t = "Command" ->
            Handled("send_resp", Respond(item.ev.cmd), conn_result)
      [] item.k = "Some" /\ item.ev.t \in {"PutChunk", "PutEnd"} ->
            Handled("send_bad", RespondOther(item.ev), conn_result)

Handle(item) ==
    /\ events' = IF item = NoItem THEN events ELSE Append(events, Kept(item))
    /\ pc' = Dispatch(item).pc
    /\ sending' = Dispatch(item).sending
    /\ conn_result' = Dispatch(item).conn_result
    /\ UNCHANGED <<out, cancel, result>>
    /\ UNCHANGED broker
    /\ UNCHANGED encoding
    /\ UNCHANGED runtime

SessDecode == pc = "next" /\ FrameDecode /\ Handle(FrameDecodeItem)

SessRead ==
    /\ pc = "next"
    /\ \E n \in ReadSizes : FrameRead(n)
    /\ Handle(NoItem)

SessReadEof == pc = "next" /\ FrameReadEof /\ Handle(FrameReadEofItem)

SessReadErr == pc = "next" /\ FrameReadErr /\ Handle(FrameReadErrItem)

\* The shutdown signal: cancel.cancel()
Cancel ==
    /\ ~cancel
    /\ pc # "done"
    /\ cancel' = TRUE
    /\ UNCHANGED <<pc, sending, out, conn_result, result>>
    /\ UNCHANGED framing
    /\ UNCHANGED broker
    /\ UNCHANGED encoding
    /\ UNCHANGED runtime

\* select! at framed.next(): the shutdown signal wins.
NextCancelled ==
    /\ pc = "next"
    /\ cancel
    /\ pc' = "shutdown"
    /\ conn_result' = "Ok"
    /\ UNCHANGED <<sending, out, cancel, result>>
    /\ UNCHANGED framing
    /\ UNCHANGED broker
    /\ UNCHANGED encoding
    /\ UNCHANGED runtime

\* Where the loop goes once a send has completed.
AfterSend(p) ==
    IF p = "send_client" THEN Handled("shutdown", "-", "Err")
    ELSE Handled("next", "-", conn_result)

\* framed.send(resp) completes: the whole response is on the connection.
SendOk ==
    /\ pc \in {"send_client", "send_bad", "send_resp"}
    /\ out' = Append(out, Written(sending, TRUE))
    /\ pc' = AfterSend(pc).pc
    /\ sending' = AfterSend(pc).sending
    /\ conn_result' = AfterSend(pc).conn_result
    /\ UNCHANGED <<cancel, result>>
    /\ UNCHANGED framing
    /\ UNCHANGED broker
    /\ UNCHANGED encoding
    /\ UNCHANGED runtime

\* What an interrupted send leaves on the connection: nothing, or a part of
\* the response.
Interrupted == {out, Append(out, Written(sending, FALSE))}

\* framed.send(resp) fails: `?` returns the error from do_client_loop at once.
SendErr ==
    /\ pc \in {"send_client", "send_bad", "send_resp"}
    /\ out' \in Interrupted
    /\ pc' = "done"
    /\ sending' = "-"
    /\ result' = "Err"
    /\ UNCHANGED <<cancel, conn_result>>
    /\ UNCHANGED framing
    /\ UNCHANGED broker
    /\ UNCHANGED encoding
    /\ UNCHANGED runtime

\* The sends that are one branch of a select! with the shutdown signal.
CancellableSends == {"send_client", "send_resp"}

\* select! at framed.send(): the shutdown signal wins and the send is dropped.
SendCancelled ==
    /\ pc \in CancellableSends
    /\ cancel
    /\ out' \in Interrupted
    /\ pc' = "shutdown"
    /\ sending' = "-"
    /\ conn_result' = "Ok"
    /\ UNCHANGED <<cancel, result>>
    /\ UNCHANGED framing
    /\ UNCHANGED broker
    /\ UNCHANGED encoding
    /\ UNCHANGED runtime

\* framed.into_inner().shutdown().await, then the loop's value is returned;
\* a failed shutdown is returned instead.
Shutdown ==
    /\ pc = "shutdown"
    /\ pc' = "done"
    /\ result' \in {conn_result, "Err"}
    /\ UNCHANGED <<sending, out, cancel, conn_result>>
    /\ UNCHANGED framing
    /\ UNCHANGED broker
    /\ UNCHANGED encoding
    /\ UNCHANGED runtime

Init ==
    /\ stream \in SessionStreams
    /\ InitFraming
    /\ pc = "next"
    /\ sending = "-"
    /\ out = <<>>
    /\ cancel = FALSE
    /\ conn_result = "-"
    /\ result = "-"
    /\ InitNoServer
    /\ InitNoEncoder
    /\ InitNoRuntime

Next ==
    \/ SessDecode
    \/ SessRead
    \/ SessReadEof
    \/ SessReadErr
    \/ Cancel
    \/ NextCancelled
    \/ SendOk
    \/ SendErr
    \/ SendCancelled
    \/ Shutdown

Spec == Init /\ [][Next]_vars

\* What the session does by itself once it can: taking the shutdown signal
\* in a select!, and shutting the connection down.  That a read returns or
\* that a write completes is up to the client.
Fairness ==
    /\ WF_vars(NextCancelled)
    /\ WF_vars(SendCancelled)
    /\ WF_vars(Shutdown)

SpecLive == Spec /\ Fairness


(***************************************************************************)
(* Properties of the decoder, checked under SpecDecoder                    *)
(***************************************************************************)
\* The items of events, and what they are.
Items == 1..Len(events)

IsEvent(j, t) == events[j].item.k = "Some" /\ events[j].item.ev.t = t

IsPut(j) == IsEvent(j, "Command") /\ events[j].item.ev.cmd.name = "Put"

\* How many bytes of the stream the decoder has consumed.
Consumed == pos - Len(buf)

\* The 0-based index of the first CRLF of s, or -1.
FirstCrlf(s) == FindCrlf(s, Len(s))

\* No CRLF lies within the first n bytes of s.
NoCrlfIn(s, n) == \A i \in 1..(n - 1) : ~(s[i] = CR /\ s[i + 1] = LF)

\* The PutChunk items that directly follow item i: how many, and their
\* payloads put together.
ChunkRun(i) ==
    Cardinality({j \in Items : j > i /\ \A k \in (i + 1)..j :
                                            IsEvent(k, "PutChunk")})

ChunkData(i, m) == Concat([k \in 1..m |-> events[i + k].item.ev.data])

\* What C2 says of the put whose command is item i.
PutBodyIntact(i) ==
    LET n == NBytes(events[i].item.ev.cmd)
        m == ChunkRun(i)
        data == ChunkData(i, m)
        start == events[i].at
    IN  /\ Len(data) <= n
        /\ data = SubSeq(stream, start + 1, start + Len(data))
        /\ \A k \in 1..m :
              events[i + k].at =
                  events[i + k - 1].at + Len(events[i + k].item.ev.data)
        /\ i + m = Len(events) => dec = ParseJob(n - Len(data))
        /\ (i + m < Len(events) /\ Len(data) < n) =>
              events[i + m + 1].item.k = "End"

\* C2: for a put announcing n bytes, the payloads of its PutChunk events, put
\* together, are the bytes of the stream that follow the command line's CRLF,
\* at most n of them, however the reads split the input; remaining is n less
\* the bytes delivered and never negative; and until all n are delivered the
\* decoder returns nothing but PutChunks (a CR or LF of the body is neither a
\* line's end nor the terminator).  Every PutChunk belongs to such a put.
C2_BodyIntact ==
    /\ dec.remaining >= 0
    /\ \A i \in Items : IsPut(i) => PutBodyIntact(i)
    /\ \A j \in Items : IsEvent(j, "PutChunk") =>
          /\ j > 1
          /\ IsPut(j - 1) \/ IsEvent(j - 1, "PutChunk")

\* A put of 2 bytes whose body is CR LF came in two chunks, then its PutEnd.
C2_Witness ==
    \E i \in Items :
        /\ IsPut(i)
        /\ NBytes(events[i].item.ev.cmd) = 2
        /\ i + 3 <= Len(events)
        /\ events[i + 1].item.ev.data = <<CR>>
        /\ events[i + 2].item.ev.data = <<LF>>
        /\ IsEvent(i + 3, "PutEnd")

\* C3: a call in ParseJob with remaining 0 and at least two bytes buffered
\* consumes them, emits PutEnd and returns to ParseCommand if they are CR LF,
\* else fails with EXPECTED_CRLF and moves to DiscardToNewline; and PutEnd is
\* emitted by no other call: it always follows a put whose whole body has
\* been delivered, two bytes further on, and those two bytes are CR LF.
C3_Terminator ==
    /\ (call.st0 = ParseJob(0) /\ Len(call.src0) >= 2) =>
          IF call.src0[1] = CR /\ call.src0[2] = LF
          THEN /\ call.res = OkSome(EvPutEnd)
               /\ call.dec = ParseCommand
               /\ call.src = Drop(call.src0, 2)
          ELSE /\ call.res = ErrClient("EXPECTED_CRLF")
               /\ call.dec = DiscardToNewline
    /\ call.res = OkSome(EvPutEnd) =>
          /\ call.st0 = ParseJob(0)
          /\ Len(call.src0) >= 2
          /\ call.src0[1] = CR /\ call.src0[2] = LF
    /\ \A j \in Items : IsEvent(j, "PutEnd") =>
          /\ \E i \in 1..(j - 1) :
                /\ IsPut(i)
                /\ \A k \in (i + 1)..(j - 1) : IsEvent(k, "PutChunk")
                /\ Len(ChunkData(i, j - 1 - i)) = NBytes(events[i].item.ev.cmd)
          /\ events[j].at = events[j - 1].at + 2
          /\ SubSeq(stream, events[j].at - 1, events[j].at) = CRLF

\* After a whole body, a CR followed by something else than LF was refused.
C3_Witness ==
    /\ call.st0 = ParseJob(0)
    /\ Len(call.src0) >= 2
    /\ call.src0[1] = CR
    /\ call.src0[2] # LF
    /\ call.res = ErrClient("EXPECTED_CRLF")
    /\ dec = DiscardToNewline

\* What the framed reader returns for a line the decoder hands to the parser.
ParsedItem(line) ==
    LET parse == ParseCommandLine(line) IN
    IF parse.ok THEN ItemOk(EvCommand(parse.cmd)) ELSE ErrClient(parse.resp)

\* C4: a command line of exactly 224 bytes, its CRLF included, is split off
\* and handed to the command parser, whose answer is the call's; a line of
\* 225 bytes is not handed to the parser and fails with BAD_FORMAT.
C4_LongestLine ==
    /\ (call.st0 = ParseCommand /\ FirstCrlf(call.src0) = MaxCommandLen - 2) =>
          /\ call.parsed
          /\ call.line = Take(call.src0, MaxCommandLen - 2)
          /\ call.src = Drop(call.src0, MaxCommandLen)
          /\ call.res \in {OkSome(EvCommand(ParseCommandLine(call.line).cmd)),
                            ErrClient(ParseCommandLine(call.line).resp)}
    /\ (call.st0 = ParseCommand /\ FirstCrlf(call.src0) = MaxCommandLen - 1) =>
          /\ ~call.parsed
          /\ call.res = ErrClient("BAD_FORMAT")
    /\ (Len(events) >= 1 /\ Len(stream) >= MaxCommandLen) =>
          /\ FirstCrlf(stream) = MaxCommandLen - 2 =>
                /\ events[1].item = ParsedItem(Take(stream, MaxCommandLen - 2))
                /\ events[1].at = MaxCommandLen
          /\ FirstCrlf(stream) = MaxCommandLen - 1 =>
                /\ events[1].item = ErrClient("BAD_FORMAT")
                /\ events[1].at = 0

\* A line of exactly 224 bytes was split off and handed to the parser, and
\* the parser's answer was the first item returned.
C4_Witness ==
    /\ call.st0 = ParseCommand
    /\ call.parsed
    /\ Len(call.line) = MaxCommandLen - 2
    /\ Len(call.src0) = MaxCommandLen
    /\ Len(events) = 1
    /\ events[1].item = ParsedItem(call.line)
    /\ events[1].at = MaxCommandLen

\* C5: a call in ParseCommand on a buffer whose first 224 bytes hold no CRLF
\* fails with BAD_FORMAT and moves the decoder to DiscardToNewline; nothing
\* is handed to the parser.
C5_TooLong ==
    (/\ call.st0 = ParseCommand
     /\ Len(call.src0) >= MaxCommandLen
     /\ NoCrlfIn(call.src0, MaxCommandLen)) =>
        /\ call.res = ErrClient("BAD_FORMAT")
        /\ call.dec = DiscardToNewline
        /\ ~call.parsed

\* Exactly 224 bytes were buffered, the last one a CR, and were refused.
C5_Witness ==
    /\ call.st0 = ParseCommand
    /\ Len(call.src0) = MaxCommandLen
    /\ call.src0[MaxCommandLen] = CR
    /\ NoCrlfIn(call.src0, MaxCommandLen)
    /\ call.res = ErrClient("BAD_FORMAT")
    /\ dec = DiscardToNewline


\* A CRLF lies in the part of the stream the decoder has not consumed.
CrlfAhead ==
    \E i \in (Consumed + 1)..(Len(stream) - 1) :
        stream[i] = CR /\ stream[i + 1] = LF

\* The reader has come to rest: the stream has ended, or every further call
\* of framed.next() repeats the last one.
AtRest == spin \/ pc = "test_end"

\* C6: after a framing failure the decoder drops every byte up to and with
\* the next CRLF, emits Discarded there and is back in ParseCommand with the
\* bytes after that CRLF as its input; so the reader never comes to rest in
\* DiscardToNewline while the client has sent a CRLF the decoder has not
\* consumed.
C6_Recovers ==
    /\ (call.st0 = DiscardToNewline /\ FirstCrlf(call.src0) >= 0) =>
          /\ call.res = OkSome(EvDiscarded)
          /\ call.dec = ParseCommand
          /\ call.src = Drop(call.src0, FirstCrlf(call.src0) + 2)
    /\ ~(AtRest /\ dec = DiscardToNewline /\ CrlfAhead)

\* C7: a call in DiscardToNewline on a buffer with no CRLF keeps the last
\* byte only; so the reader never comes to rest holding a CR whose LF is the
\* next byte of the stream: the pair is recognised once the LF is read.
C7_SplitCrlf ==
    /\ (/\ call.st0 = DiscardToNewline
         /\ call.src0 # <<>>
         /\ FirstCrlf(call.src0) < 0) =>
            call.src = <<call.src0[Len(call.src0)]>>
    /\ ~(/\ AtRest
          /\ dec = DiscardToNewline
          /\ buf = <<CR>>
          /\ pos < Len(stream)
          /\ stream[pos + 1] = LF)

\* C8: a call that returns Discarded leaves the decoder in ParseCommand, and
\* having consumed a CRLF; so no two Discarded follow each other.
C8_DiscardedOnce ==
    /\ call.res = OkSome(EvDiscarded) =>
          /\ call.dec = ParseCommand
          /\ FirstCrlf(call.src0) >= 0
    /\ \A j \in Items :
          (j > 1 /\ IsEvent(j, "Discarded")) => ~IsEvent(j - 1, "Discarded")


(***************************************************************************)
(* Properties of the session, checked under Spec                           *)
(***************************************************************************)
\* Item i is a client error of the decoder, carrying a response.
ClientAt(i) == events[i].item.k = "Client"

\* The responses on the connection, by their place in out.
Responses == 1..Len(out)

\* The whole of item i's response is the last thing written.
SentLast(i) ==
    /\ out # <<>>
    /\ out[Len(out)] = [resp |-> events[i].item.resp, full |-> TRUE, ev |-> i]

\* After a client error the session does not poll the decoder again: the
\* error stays the last item, the reader is as the failing call left it, and
\* the session is sending, shutting the connection down, or done.
C1_NoResume ==
    \A i \in Items : ClientAt(i) =>
        /\ i = Len(events)
        /\ call.res = events[i].item
        /\ dec = call.dec /\ buf = call.src
        /\ fr.has_errored
        /\ pc \in {"send_client", "shutdown", "done"}

\* Nothing but the error's response is written from then on, and once only.
C1_OnlyThat ==
    \A i \in Items : ClientAt(i) =>
        \A k \in Responses : out[k].ev >= i =>
            /\ k = Len(out)
            /\ out[k].ev = i
            /\ out[k].resp = events[i].item.resp

\* The send was dropped because the shutdown signal fired, or it failed.
SendDropped == cancel /\ conn_result = "Ok"

SendFailed == pc = "done" /\ result = "Err" /\ conn_result = "-"

\* C1: whenever the decoder fails with a client error carrying a response,
\* the session transmits exactly that response and closes the connection: it
\* never polls the decoder again and answers nothing else, and when it
\* closes, the whole response has been written last.
C1_Original ==
    /\ C1_NoResume
    /\ C1_OnlyThat
    /\ \A i \in Items :
          (ClientAt(i) /\ pc \in {"shutdown", "done"}) => SentLast(i)

\* C1, amended: the same, but when the session closes the whole response has
\* been written last unless the shutdown signal fired or the write failed
\* while it was being sent; then the session closes without completing it.
C1_ClientError ==
    /\ C1_NoResume
    /\ C1_OnlyThat
    /\ \A i \in Items :
          (ClientAt(i) /\ pc \in {"shutdown", "done"}) =>
              \/ SentLast(i) /\ conn_result = "Err"
              \/ SendDropped
              \/ SendFailed

\* The session has answered a refused line with its response and returned,
\* leaving input of the client unread or undecoded.
C1_Witness ==
    /\ pc = "done"
    /\ events # <<>>
    /\ ClientAt(Len(events))
    /\ SentLast(Len(events))
    /\ ~cancel
    /\ result = "Err"
    /\ pos < Len(stream) \/ buf # <<>>

\* The items a put consists of: its command, its chunks and its end.
IsPutPart(j) == IsPut(j) \/ IsEvent(j, "PutChunk") \/ IsEvent(j, "PutEnd")

\* The session is between two commands and nothing has disturbed it.
Undisturbed == ~cancel /\ result = "-" /\ pc = "next"

\* C9: while a put is being received the session sends no response, neither
\* to the put's command line nor to a PutChunk; it sends exactly one response
\* after PutEnd.
C9_PutReceive ==
    /\ \A k \in Responses :
          ~IsPut(out[k].ev) /\ ~IsEvent(out[k].ev, "PutChunk")
    /\ \A j \in Items :
          (IsEvent(j, "PutEnd") /\ Undisturbed) =>
              Cardinality({k \in Responses : out[k].ev = j}) = 1

\* The items that belong to the command line that is item i: the command
\* and, for a put, the chunks and the end that follow it.
PartsOf(i) ==
    {j \in Items :
        /\ j >= i
        /\ \A m \in (i + 1)..j :
              IsEvent(m, "PutChunk") \/ IsEvent(m, "PutEnd")}

\* C10: responses are written in the order of the commands they answer, and
\* each command line other than quit produces exactly one response: never
\* more than one, and one once the session waits for the next command.
C10_OneResponse ==
    /\ \A k \in Responses : \A l \in Responses :
          k < l => out[k].ev < out[l].ev
    /\ \A i \in Items :
          (IsEvent(i, "Command") /\ events[i].item.ev.cmd.name # "Quit") =>
              LET n == Cardinality({k \in Responses : out[k].ev \in PartsOf(i)})
              IN  /\ n <= 1
                  /\ Undisturbed => n = 1


\* Item i is the quit command.
IsQuit(i) == IsEvent(i, "Command") /\ events[i].item.ev.cmd.name = "Quit"

\* C11: when the session receives quit it closes the connection: quit is the
\* last item it takes from the decoder, it goes to the connection's shutdown,
\* and it writes no response for it.
C11_Quit ==
    \A i \in Items : IsQuit(i) =>
        /\ i = Len(events)
        /\ pc \in {"shutdown", "done"}
        /\ \A k \in Responses : out[k].ev # i

\* C12: a put announcing more than max_job_size bytes is answered with
\* JOB_TOO_BIG and with nothing else, and only once its PutEnd has come, that
\* is after its whole body and the CRLF after it have been consumed.
C12_JobTooBig ==
    \A i \in Items :
        (IsPut(i) /\ NBytes(events[i].item.ev.cmd) > max_job_size) =>
            /\ \A k \in Responses : out[k].ev \in PartsOf(i) =>
                  /\ out[k].resp = "JOB_TOO_BIG"
                  /\ IsEvent(out[k].ev, "PutEnd")
            /\ (Undisturbed /\ \E j \in PartsOf(i) : IsEvent(j, "PutEnd")) =>
                  Cardinality({k \in Responses : out[k].ev \in PartsOf(i)}) = 1

\* Item i is the end of the stream, or an IO error of the decoder.
StreamEndAt(i) == events[i].item.k \in {"End", "IO"}

\* C13: when the client's stream ends or the decoder reports an IO error the
\* session ends without writing a response: that item is the last it takes,
\* it goes to the connection's shutdown with nothing to send, and nothing is
\* written from then on.
C13_StreamEnd ==
    \A i \in Items : StreamEndAt(i) =>
        /\ i = Len(events)
        /\ pc \in {"shutdown", "done"}
        /\ sending = "-"
        /\ \A k \in Responses : out[k].ev < i
        /\ conn_result = (IF events[i].item.k = "End" THEN "Ok" ELSE "Err")

\* A session answered a command, then met the end of the stream inside the
\* next line, and returned having written nothing more.
C13_Witness ==
    /\ pc = "done"
    /\ Len(events) = 2
    /\ events[2].item = ErrIO("bytes remaining on stream")
    /\ Len(out) = 1
    /\ out[1].ev = 1
    /\ result = "Err"

(***************************************************************************)
(* The decoder at the end of the stream, checked under SpecDecoder         *)
(***************************************************************************)
BytesRemaining == ErrIO("bytes remaining on stream")

\* C14: a decode_eof call in ParseCommand on a non-empty buffer of fewer than
\* 224 bytes without CRLF gives the IO error "bytes remaining on stream" and
\* no command or client response.  In the history that error comes after the
\* items of everything before the incomplete line (what the decoder consumed
\* ends at a CRLF, and the first line of the stream gave the first item), the
\* incomplete line is still buffered, and only the end of the stream (None)
\* follows it.
C14_IncompleteLine ==
    /\ (/\ call.at_eof
         /\ call.st0 = ParseCommand
         /\ call.src0 # <<>>
         /\ Len(call.src0) < MaxCommandLen
         /\ FirstCrlf(call.src0) < 0) =>
            /\ call.res = BytesRemaining
            /\ call.dec = ParseCommand
            /\ call.src = call.src0
    /\ \A j \in Items : events[j].item = BytesRemaining =>
          /\ \A m \in Items : m > j => events[m].item = ItemEnd
          /\ dec = ParseCommand =>
                /\ events[j].at = 0 \/
                      SubSeq(stream, events[j].at - 1, events[j].at) = CRLF
                /\ buf = Drop(stream, events[j].at)
                /\ buf # <<>> /\ FirstCrlf(buf) < 0
                /\ (j > 1 /\ FirstCrlf(stream) >= 0) =>
                      events[1].item =
                          ParsedItem(Take(stream, FirstCrlf(stream)))

\* use a, then the start of a line and the end of the stream: the command,
\* the IO error, None.
C14_Witness ==
    /\ fr.eof
    /\ Len(events) = 3
    /\ IsEvent(1, "Command")
    /\ events[2].item = BytesRemaining
    /\ events[3].item = ItemEnd
    /\ dec = ParseCommand
    /\ buf = <<"u", "s">>

\* C15: when the stream ends while the decoder is in ParseJob with bytes of
\* the body outstanding, the reader returns an error before it returns None.
C15_PrematureEnd ==
    (pc = "test_end" /\ dec.st = "ParseJob" /\ dec.remaining > 0) =>
        \E m \in Items : events[m].item.k = "IO"

\* The stream ends before the body of the put at item i and the CRLF after
\* it have all been sent.
Truncated(i) ==
    Len(stream) < events[i].at + NBytes(events[i].item.ev.cmd) + 2

\* C16: for a put whose body and CRLF the stream ends before, no PutEnd is
\* ever returned, and once the stream has ended the PutChunks that followed
\* the command hold every byte of the body that did arrive.
C16_TruncatedPut ==
    \A i \in Items : (IsPut(i) /\ Truncated(i)) =>
        /\ \A j \in Items : j > i => ~IsEvent(j, "PutEnd")
        /\ pc = "test_end" =>
              ChunkData(i, ChunkRun(i)) =
                  SubSeq(stream, events[i].at + 1,
                         Min(Len(stream),
                             events[i].at + NBytes(events[i].item.ev.cmd)))

\* A put of 2 bytes of which one arrived before the stream ended: one chunk.
C16_Witness ==
    /\ pc = "test_end"
    /\ \E i \in Items :
          /\ IsPut(i)
          /\ NBytes(events[i].item.ev.cmd) = 2
          /\ Len(stream) = events[i].at + 1
          /\ ChunkRun(i) = 1
          /\ events[i + 1].item.ev.data = <<"a">>


\* Item i is a put the server accepts, and its body and CRLF have come.
PutReceived(i) ==
    /\ IsPut(i)
    /\ NBytes(events[i].item.ev.cmd) <= max_job_size
    /\ \E j \in PartsOf(i) : IsEvent(j, "PutEnd")

C29_Cancelled == cancel ~> pc = "done"


(***************************************************************************)
(* The Server under reserve_by_id                                          *)
(*                                                                         *)
(* No code constructs a Server or puts a job into it, so the Server starts *)
(* in any state that satisfies the data model: up to MaxJobs jobs, each in *)
(* one of the two queues and one of the four states, the ready and buried  *)
(* maps holding the jobs at consecutive positions from sn0 in the order of *)
(* their ids, and every counter equal to the size of its set.              *)
(***************************************************************************)
MaxJobs == 2

JobIds == 1..MaxJobs

QueueNames == {"a", "b"}

JobStates == {"Ready", "Delayed", "Reserved", "Buried"}

NoPlace == <<"-", "-">>

\* Where each job is: nowhere, or in a queue and a state.
Placements == [JobIds -> {NoPlace} \cup (QueueNames \X JobStates)]

Placed(f, qn, st) == {id \in JobIds : f[id] = <<qn, st>>}

\* How many jobs of S come before id.
Rank(S, id) == Cardinality({j \in S : j < id})

PosOf(f, sn0, id) == sn0 + Rank(Placed(f, f[id][1], f[id][2]), id)

StateOf(f, sn0, id) ==
    CASE f[id][2] = "Ready" -> Ready(PosOf(f, sn0, id))
      [] f[id][2] = "Buried" -> Buried(PosOf(f, sn0, id))
      [] f[id][2] = "Delayed" -> Delayed(1)
      [] f[id][2] = "Reserved" -> Reserved(1)

\* position -> job ID, for the jobs of S
MapOf(S, sn0) ==
    [p \in {sn0 + Rank(S, id) : id \in S} |->
        CHOOSE id \in S : sn0 + Rank(S, id) = p]

\* pause_until: None, or Some(instant) while the tube is paused.
NotPaused == 0

PausedUntil == 2

TubeOf(f, sn0, qn) ==
    [buried |-> MapOf(Placed(f, qn, "Buried"), sn0),
     buried_sn |-> sn0 + Cardinality(Placed(f, qn, "Buried")),
     ready |-> MapOf(Placed(f, qn, "Ready"), sn0),
     ready_sn |-> sn0 + Cardinality(Placed(f, qn, "Ready")),
     delayed |-> {<<1, id>> : id \in Placed(f, qn, "Delayed")},
     pause_until |-> NotPaused,
     stats |->
        [current_jobs_ready |-> Cardinality(Placed(f, qn, "Ready")),
         current_jobs_reserved |-> Cardinality(Placed(f, qn, "Reserved")),
         current_jobs_delayed |-> Cardinality(Placed(f, qn, "Delayed")),
         current_jobs_buried |-> Cardinality(Placed(f, qn, "Buried"))]]

ServerOf(f, sn0) ==
    [jobs |-> [id \in {j \in JobIds : f[j] # NoPlace} |->
                  JobEntry(f[id][1], 0, StateOf(f, sn0, id))],
     queues |-> [qn \in QueueNames |-> TubeOf(f, sn0, qn)]]

\* The Server srv with the queues of P paused.
Pausing(srv, P) ==
    [srv EXCEPT !.queues =
        [qn \in DOMAIN srv.queues |->
            IF qn \in P
            THEN [srv.queues[qn] EXCEPT !.pause_until = PausedUntil]
            ELSE srv.queues[qn]]]

InitServer ==
    /\ \E f \in Placements : \E sn0 \in 0..1 : \E P \in SUBSET QueueNames :
            server = Pausing(ServerOf(f, sn0), P)
    /\ op = NoOp
    /\ handed = NoHanded
    /\ InitNoEncoder
    /\ InitNoRuntime
    /\ stream = <<>>
    /\ InitFraming
    /\ pc = "server"
    /\ sending = "-"
    /\ out = <<>>
    /\ cancel = FALSE
    /\ conn_result = "-"
    /\ result = "-"

\* A call of a method of Server; a panic ends the program.
ServerCall(name, id, arg, done) ==
    /\ pc = "server"
    /\ op.ret # "panic"
    /\ server' = done.server
    /\ op' = [name |-> name, id |-> id, arg |-> arg, ret |-> done.ret,
              before |-> server,
              prev |-> [name |-> op.name, id |-> op.id, ret |-> op.ret]]
    /\ UNCHANGED handed
    /\ UNCHANGED encoding
    /\ UNCHANGED runtime
    /\ UNCHANGED framing
    /\ UNCHANGED session

ReserveById(id) == ServerCall("reserve_by_id", id, 0, reserve_by_id(server, id))

\* The priorities a release asks for.
Pris == 0..1

\* release <id> <pri> <delay>, as far as Server::release takes it: the id.
Release(id, pri) == ServerCall("release", id, pri, release(server, id))

ReserveByQueue(qs) ==
    ServerCall("reserve_by_queue", 0, qs, reserve_by_queue(server, qs))

NextServer ==
    \/ \E id \in JobIds : ReserveById(id)
    \/ \E id \in JobIds : \E pri \in Pris : Release(id, pri)
    \/ \E qs \in SUBSET QueueNames : ReserveByQueue(qs)

SpecServer == InitServer /\ [][NextServer]_vars

(***************************************************************************)
(* Properties of the Server, checked under SpecServer                      *)
(***************************************************************************)
\* The state of job id in srv, and the TubeState of its queue.
StateIn(srv, id) == srv.jobs[id].state

TubeIn(srv, id) == srv.queues[srv.jobs[id].qn]

\* The last operation was reserve_by_id.
Reserving == op.name = "reserve_by_id"


\* C17: every job in state Ready{pos} is the entry at key pos of the ready
\* map of its queue, every job in state Buried{pos} the entry at key pos of
\* its buried map, and every entry of those maps is such a job, so that a job
\* is at exactly one position.
C17_Positions ==
    /\ \A id \in DOMAIN server.jobs :
          /\ StateIn(server, id).s = "Ready" =>
                /\ StateIn(server, id).pos \in DOMAIN TubeIn(server, id).ready
                /\ TubeIn(server, id).ready[StateIn(server, id).pos] = id
          /\ StateIn(server, id).s = "Buried" =>
                /\ StateIn(server, id).pos \in DOMAIN TubeIn(server, id).buried
                /\ TubeIn(server, id).buried[StateIn(server, id).pos] = id
    /\ \A qn \in DOMAIN server.queues :
          /\ \A p \in DOMAIN server.queues[qn].ready :
                LET id == server.queues[qn].ready[p] IN
                /\ id \in DOMAIN server.jobs
                /\ server.jobs[id].qn = qn
                /\ StateIn(server, id) = Ready(p)
          /\ \A p \in DOMAIN server.queues[qn].buried :
                LET id == server.queues[qn].buried[p] IN
                /\ id \in DOMAIN server.jobs
                /\ server.jobs[id].qn = qn
                /\ StateIn(server, id) = Buried(p)

\* C18: reserve_by_id(id) on a job that exists and is Ready returns the job,
\* removes it from the ready map of its queue and leaves it in state
\* Reserved; a reserve_by_id(id) that directly follows it returns None.
C18_ReserveReady ==
    /\ (/\ Reserving
         /\ op.id \in DOMAIN op.before.jobs
         /\ StateIn(op.before, op.id).s = "Ready") =>
            /\ op.ret = "Some"
            /\ StateIn(op.before, op.id).pos
                    \notin DOMAIN TubeIn(server, op.id).ready
            /\ StateIn(server, op.id).s = "Reserved"
    /\ (/\ Reserving
         /\ op.prev = [name |-> "reserve_by_id", id |-> op.id, ret |-> "Some"])
            => op.ret = "None"

JobsCounted(ts) ==
    ts.stats.current_jobs_ready + ts.stats.current_jobs_reserved
        + ts.stats.current_jobs_delayed + ts.stats.current_jobs_buried

RECURSIVE CountedIn(_, _)
CountedIn(srv, qs) ==
    IF qs = {} THEN 0
    ELSE LET qn == CHOOSE x \in qs : TRUE IN
         JobsCounted(srv.queues[qn]) + CountedIn(srv, qs \ {qn})

\* C20: the counters current_jobs_ready, _reserved, _delayed and _buried of
\* all queues add up to the number of jobs in the job store.
C20_CountsSum ==
    CountedIn(server, DOMAIN server.queues) = Cardinality(DOMAIN server.jobs)

\* The last operation was release, directly after the reserve_by_id that
\* reserved the same job.
ReleasingReserved ==
    /\ op.name = "release"
    /\ op.prev = [name |-> "reserve_by_id", id |-> op.id, ret |-> "Some"]

\* C24: a release of a job that the call before it reserved succeeds and
\* leaves the job in state Ready, in the ready map of the same queue, with
\* the priority the release asked for; a release of an id that is not in the
\* job store returns false and leaves the Server as it was.
C24_Release ==
    /\ ReleasingReserved =>
            /\ op.ret = "true"
            /\ server.jobs[op.id].qn = op.before.jobs[op.id].qn
            /\ StateIn(server, op.id).s = "Ready"
            /\ StateIn(server, op.id).pos \in DOMAIN TubeIn(server, op.id).ready
            /\ server.jobs[op.id].pri = op.arg
    /\ (op.name = "release" /\ op.id \notin DOMAIN op.before.jobs) =>
            /\ op.ret = "false"
            /\ server = op.before

\* The first position of a ready map, and the job at it.
HeadPos(ts) == CHOOSE p \in DOMAIN ts.ready : \A q \in DOMAIN ts.ready : p <= q

HeadJob(ts) == ts.ready[HeadPos(ts)]

\* The queues of qs that have a ready job and are not paused.
Reservable(srv, qs) ==
    {qn \in qs \cap DOMAIN srv.queues :
        /\ srv.queues[qn].pause_until = NotPaused
        /\ DOMAIN srv.queues[qn].ready # {}}

\* C25: reserve_by_queue(W) returns nothing and changes nothing when no queue
\* of W is unpaused with a ready job; otherwise it returns a job, which is
\* the head of such a queue, taken out of its ready map, and no such queue
\* of W has a head of smaller priority value.
C25_ReserveByQueue ==
    op.name = "reserve_by_queue" =>
        LET R == Reservable(op.before, op.arg) IN
        IF R = {}
        THEN op.ret = "None" /\ server = op.before
        ELSE /\ op.ret = "Some"
             /\ \E qn \in R :
                    /\ HeadPos(op.before.queues[qn])
                            \notin DOMAIN server.queues[qn].ready
                    /\ \A other \in R :
                            op.before.jobs[HeadJob(op.before.queues[qn])].pri
                            <= op.before.jobs[HeadJob(op.before.queues[other])].pri


(***************************************************************************)
(* A TubeState under its methods                                           *)
(*                                                                         *)
(* The methods of TubeState are private and only take_ready has a caller,  *)
(* so the tube is driven by every call its signature allows.  The Server   *)
(* holds one tube, empty at first, and MaxJobs jobs of any priorities that *)
(* are in no set of the tube yet.  The methods know a job by its id only;  *)
(* the job store is there for the priorities.                              *)
(***************************************************************************)
\* How many put_ready, put_buried and put_delayed calls are made.
MaxPuts == 3

TubeName == "a"

\* The times a job can be delayed until.
Instants == 1..2

NoStats ==
    [current_jobs_ready |-> 0, current_jobs_reserved |-> 0,
     current_jobs_delayed |-> 0, current_jobs_buried |-> 0]

\* A TubeState with nothing in it.
NewTube ==
    [buried |-> <<>>, buried_sn |-> 0, ready |-> <<>>, ready_sn |-> 0,
     delayed |-> {}, pause_until |-> NotPaused, stats |-> NoStats]

InitTube ==
    /\ \E pri \in [JobIds -> Pris] :
            server =
                [jobs |-> [id \in JobIds |->
                              JobEntry(TubeName, pri[id], Reserved(1))],
                 queues |-> [qn \in {TubeName} |->
                    [NewTube EXCEPT !.stats.current_jobs_reserved = MaxJobs]]]
    /\ op = NoOp
    /\ handed = NoHanded
    /\ InitNoEncoder
    /\ InitNoRuntime
    /\ stream = <<>>
    /\ InitFraming
    /\ pc = "tube"
    /\ sending = "-"
    /\ out = <<>>
    /\ cancel = FALSE
    /\ conn_result = "-"
    /\ result = "-"

\* The tube.
Tube == server.queues[TubeName]

\* The put_* calls made so far.
Puts == Tube.ready_sn + Tube.buried_sn + Cardinality(Tube.delayed)

\* A call of a method of TubeState; a panic ends the program.
TubeCall(name, id, arg, done) ==
    /\ pc = "tube"
    /\ op.ret # "panic"
    /\ server' = [server EXCEPT !.queues[TubeName] = done.ts]
    /\ op' = [name |-> name, id |-> id, arg |-> arg,
              ret |-> IF done.panic THEN "panic" ELSE "ok",
              before |-> server, prev |-> NoOp.prev]
    /\ UNCHANGED encoding
    /\ UNCHANGED runtime
    /\ UNCHANGED framing
    /\ UNCHANGED session

\* The history with the position a put returned, if it returned.
Hand(seq, id, done) ==
    IF done.panic THEN seq ELSE Append(seq, [id |-> id, pos |-> done.ret])

PutReady(id) ==
    /\ Puts < MaxPuts
    /\ TubeCall("put_ready", id, 0, put_ready(Tube, id))
    /\ handed' = [handed EXCEPT
                    !.ready = Hand(handed.ready, id, put_ready(Tube, id))]

PutBuried(id) ==
    /\ Puts < MaxPuts
    /\ TubeCall("put_buried", id, 0, put_buried(Tube, id))
    /\ handed' = [handed EXCEPT
                    !.buried = Hand(handed.buried, id, put_buried(Tube, id))]

PutDelayed(id, until) ==
    /\ Puts < MaxPuts
    /\ TubeCall("put_delayed", id, until, put_delayed(Tube, id, until))
    /\ UNCHANGED handed

TakeBuried(bp) ==
    /\ TubeCall("take_buried", 0, bp, take_buried(Tube, bp))
    /\ UNCHANGED handed

TakeReady(rp) ==
    /\ TubeCall("take_ready", 0, rp, take_ready(Tube, rp))
    /\ UNCHANGED handed

\* The positions a caller can name.
Positions == 0..MaxPuts

NextTube ==
    \/ \E id \in JobIds : PutReady(id)
    \/ \E id \in JobIds : PutBuried(id)
    \/ \E id \in JobIds : \E until \in Instants : PutDelayed(id, until)
    \/ \E bp \in Positions : TakeBuried(bp)
    \/ \E rp \in Positions : TakeReady(rp)

SpecTube == InitTube /\ [][NextTube]_vars

(***************************************************************************)
(* Properties of a TubeState, checked under SpecTube                       *)
(***************************************************************************)
\* The priority of job id.
PriOf(id) == server.jobs[id].pri

\* C21: in every queue the ready map, read in the order of its keys, holds
\* jobs of ascending priority value (among equal priorities the keys are the
\* insertion sequence), so that the first entry is a job of least priority
\* value.
C21_ReadyOrder ==
    \A qn \in DOMAIN server.queues :
        LET ready == server.queues[qn].ready IN
        \A p, q \in DOMAIN ready :
            p < q => PriOf(ready[p]) <= PriOf(ready[q])

\* The entries of the map are the jobs that were handed its positions.
AsHanded(map, seq) ==
    /\ \A i \in 1..Len(seq) :
            seq[i].pos \in DOMAIN map => map[seq[i].pos] = seq[i].id
    /\ \A p \in DOMAIN map : \E i \in 1..Len(seq) : seq[i].pos = p

\* Every position is greater than all handed out before it.
Increasing(seq) ==
    \A i, j \in 1..Len(seq) : i < j => seq[i].pos < seq[j].pos

\* C22: every position put_ready returns is greater than every position it
\* returned before, also when entries were taken in between, and each entry
\* of the ready map is the job that was given its position: jobs are stored
\* in the order they were put.
C22_ReadyFifo ==
    /\ Increasing(handed.ready)
    /\ AsHanded(Tube.ready, handed.ready)
    /\ \A p \in DOMAIN Tube.ready : p < Tube.ready_sn

\* Three jobs were put, the first was taken before the third was put, and
\* the two that remain, both of the same priority, are stored in the order
\* they were put in.
C22_Witness ==
    /\ op.name = "put_ready"
    /\ Len(handed.ready) = 3
    /\ DOMAIN Tube.ready = {handed.ready[2].pos, handed.ready[3].pos}
    /\ handed.ready[2].id # handed.ready[3].id
    /\ PriOf(handed.ready[2].id) = PriOf(handed.ready[3].id)
    /\ handed.ready[2].pos < handed.ready[3].pos

\* C23: every position put_buried returns is greater than every position
\* that is or ever was a key of the buried map, also after take_buried, and
\* each entry of the buried map is the job that was given its position:
\* the order of the buried map is the order of burial.
C23_BuriedFifo ==
    /\ Increasing(handed.buried)
    /\ AsHanded(Tube.buried, handed.buried)
    /\ \A p \in DOMAIN Tube.buried : p < Tube.buried_sn

\* Three jobs were buried, the first was taken before the third was put,
\* and the two that remain are in the order of their burial.
C23_Witness ==
    /\ op.name = "put_buried"
    /\ Len(handed.buried) = 3
    /\ DOMAIN Tube.buried = {handed.buried[2].pos, handed.buried[3].pos}
    /\ handed.buried[2].pos < handed.buried[3].pos

\* C30: a put_ready of a job id that is in the ready map panics, and no job
\* id is at two positions of a ready map.
C30_PutReadyTwice ==
    /\ (/\ op.name = "put_ready"
         /\ \E p \in DOMAIN op.before.queues[TubeName].ready :
                op.before.queues[TubeName].ready[p] = op.id)
            => op.ret = "panic"
    /\ \A qn \in DOMAIN server.queues :
            \A p, q \in DOMAIN server.queues[qn].ready :
                p # q => server.queues[qn].ready[p] # server.queues[qn].ready[q]


(***************************************************************************)
(* The encoder (src/wire/encoder.rs)                                       *)
(*                                                                         *)
(* A Response is a record: its variant, its number (id or count), its      *)
(* bytes (the tube of Using, the data of JobChunk) and, for the variants   *)
(* that carry a structure, what serde_yaml::to_string makes of it: ser is  *)
(* "Ok" with the YAML text as bytes, or "Err".                             *)
(***************************************************************************)
Resp(t, id, bytes, ser) == [t |-> t, id |-> id, bytes |-> bytes, ser |-> ser]

\* The variants that are written as one word.
WireWord ==
    [BadFormat |-> <<"B", "A", "D", "_", "F", "O", "R", "M", "A", "T">>,
     Buried |-> <<"B", "U", "R", "I", "E", "D">>,
     DeadlineSoon |-> <<"D", "E", "A", "D", "L", "I", "N", "E", "_", "S", "O", "O", "N">>,
     Deleted |-> <<"D", "E", "L", "E", "T", "E", "D">>,
     Draining |-> <<"D", "R", "A", "I", "N", "I", "N", "G">>,
     ExpectedCRLF |-> <<"E", "X", "P", "E", "C", "T", "E", "D", "_", "C", "R", "L", "F">>,
     InternalError |-> <<"I", "N", "T", "E", "R", "N", "A", "L", "_", "E", "R", "R", "O", "R">>,
     JobTooBig |-> <<"J", "O", "B", "_", "T", "O", "O", "_", "B", "I", "G">>,
     Kicked |-> <<"K", "I", "C", "K", "E", "D">>,
     NotFound |-> <<"N", "O", "T", "_", "F", "O", "U", "N", "D">>,
     NotIgnored |-> <<"N", "O", "T", "_", "I", "G", "N", "O", "R", "E", "D">>,
     OutOfMemory |-> <<"O", "U", "T", "_", "O", "F", "_", "M", "E", "M", "O", "R", "Y">>,
     Paused |-> <<"P", "A", "U", "S", "E", "D">>,
     Released |-> <<"R", "E", "L", "E", "A", "S", "E", "D">>,
     TimedOut |-> <<"T", "I", "M", "E", "D", "_", "O", "U", "T">>,
     Touched |-> <<"T", "O", "U", "C", "H", "E", "D">>,
     UnknownCommand |-> <<"U", "N", "K", "N", "O", "W", "N", "_", "C", "O", "M", "M", "A", "N", "D">>]

\* The variants that are written as a word and a number.
WireWordOfNum ==
    [BuriedID |-> <<"B", "U", "R", "I", "E", "D">>,
     Inserted |-> <<"I", "N", "S", "E", "R", "T", "E", "D">>,
     KickedCount |-> <<"K", "I", "C", "K", "E", "D">>,
     Watching |-> <<"W", "A", "T", "C", "H", "I", "N", "G">>,
     Reserved |-> <<"R", "E", "S", "E", "R", "V", "E", "D">>,
     Found |-> <<"F", "O", "U", "N", "D">>]

OkVariants == {"OkStatsJob", "OkStats", "OkListTubes", "OkStatsTube"}

\* What encode gives: the write buffer, and Ok(()) or the error.
Encoded(buffer, res) == [dst |-> buffer, res |-> res]

\* u64::to_string, usize::to_string: the decimal digits of n.
RECURSIVE to_string(_)
to_string(n) ==
    IF n < 10 THEN <<DigitOf(n)>>
    ELSE to_string(n \div 10) \o <<DigitOf(n % 10)>>

\* A length that counts the CRLF after the data too.
DataLenWithCrlf(data) == Len(data) + 2

\* data.len()
DataLen(data) == Len(data)

\* put_ok_and_data
put_ok_and_data(buffer, ser, data) ==
    IF ser = "Ok"
    THEN Encoded(buffer \o <<"O", "K", SP>> \o to_string(DataLen(data))
                    \o CRLF \o data \o CRLF, "Ok")
    ELSE Encoded(buffer \o WireWord.InternalError \o CRLF, "Serde")

\* put_str_and_u32, put_str_and_u64
put_str_and_u64(buffer, str, num) ==
    buffer \o str \o <<SP>> \o to_string(num) \o CRLF

\* Encoder::encode
encode(item, buffer) ==
    CASE item.t \in DOMAIN WireWord ->
            Encoded(buffer \o WireWord[item.t] \o CRLF, "Ok")
      [] item.t \in DOMAIN WireWordOfNum ->
            Encoded(put_str_and_u64(buffer, WireWordOfNum[item.t], item.id),
                    "Ok")
      [] item.t \in OkVariants -> put_ok_and_data(buffer, item.ser, item.bytes)
      [] item.t = "Using" ->
            Encoded(buffer \o <<"U", "S", "I", "N", "G", SP>> \o item.bytes
                        \o CRLF, "Ok")
      [] item.t = "JobChunk" -> Encoded(buffer \o item.bytes, "Ok")
      [] item.t = "JobEnd" -> Encoded(buffer \o CRLF, "Ok")

(***************************************************************************)
(* The encoder under a caller that encodes one response after another into *)
(* the same buffer                                                         *)
(***************************************************************************)
\* How many responses are encoded.
MaxEncodes == 3

\* The ids, the chunks of job data and the YAML texts of the responses.
RespIds == {7, 12}

Chunks == {<<"a">>, <<"b", "c">>}

Yamls == {<<"-", SP, "a", LF>>, Rep("a", 9) \o <<LF>>}

ResponsesToEncode ==
    {Resp(t, 0, <<>>, "-") : t \in {"InternalError", "NotFound", "JobEnd"}}
    \cup {Resp("Inserted", 7, <<>>, "-"), Resp("Watching", 12, <<>>, "-"),
          Resp("Found", 7, <<>>, "-"), Resp("Using", 0, <<"a">>, "-")}
    \cup {Resp("Reserved", id, <<>>, "-") : id \in RespIds}
    \cup {Resp("JobChunk", 0, c, "-") : c \in Chunks}
    \cup {Resp(t, 0, y, "Ok") : t \in OkVariants, y \in Yamls}
    \cup {Resp(t, 0, <<>>, "Err") : t \in OkVariants}

InitEncoder ==
    /\ dst = <<>>
    /\ encoded = <<>>
    /\ InitNoRuntime
    /\ InitNoServer
    /\ stream = <<>>
    /\ InitFraming
    /\ pc = "encoder"
    /\ sending = "-"
    /\ out = <<>>
    /\ cancel = FALSE
    /\ conn_result = "-"
    /\ result = "-"

\* A call of encode: the item, where in the buffer its bytes start, and the
\* result.
Encode(item) ==
    /\ pc = "encoder"
    /\ Len(encoded) < MaxEncodes
    /\ dst' = encode(item, dst).dst
    /\ encoded' = Append(encoded, [item |-> item, at |-> Len(dst),
                                   res |-> encode(item, dst).res])
    /\ UNCHANGED broker
    /\ UNCHANGED framing
    /\ UNCHANGED session
    /\ UNCHANGED runtime

NextEncoder == \E item \in ResponsesToEncode : Encode(item)

SpecEncoder == InitEncoder /\ [][NextEncoder]_vars

(***************************************************************************)
(* Properties of the encoder, checked under SpecEncoder                    *)
(***************************************************************************)
\* The bytes the calls i to j of encode appended.
Appended(i, j) ==
    SubSeq(dst, encoded[i].at + 1,
           IF j = Len(encoded) THEN Len(dst) ELSE encoded[j + 1].at)

\* The calls i to j are a job as it is sent: Reserved or Found, then only
\* JobChunks, then JobEnd.
JobSent(i, j) ==
    /\ i < j
    /\ encoded[i].item.t \in {"Reserved", "Found"}
    /\ encoded[j].item.t = "JobEnd"
    /\ \A m \in (i + 1)..(j - 1) : encoded[m].item.t = "JobChunk"

\* The data of the job the calls i to j sent.
JobData(i, j) ==
    Concat([m \in 1..(j - i - 1) |-> encoded[i + m].item.bytes])

\* C27: a job sent as Reserved{id} (or Found{id}), its JobChunks and JobEnd
\* is written as RESERVED (or FOUND), the id, the number of bytes of the
\* job's data, CRLF, the data, CRLF.
C27_Reservation ==
    \A i, j \in 1..Len(encoded) :
        JobSent(i, j) =>
            Appended(i, j) =
                WireWordOfNum[encoded[i].item.t] \o <<SP>>
                    \o to_string(encoded[i].item.id) \o <<SP>>
                    \o to_string(Len(JobData(i, j))) \o CRLF
                    \o JobData(i, j) \o CRLF

\* Call i encoded a structured response whose serialisation succeeded.
OkSent(i) == encoded[i].item.t \in OkVariants /\ encoded[i].item.ser = "Ok"

\* What a client reads from the bytes w of such a response: the line up to
\* the first CRLF is OK and a number n, n bytes follow, and then a CRLF ends
\* w; the n bytes are the YAML text.
ReadsAsOk(w, yaml) ==
    LET h == FirstCrlf(w)
        n == NumVal(SubSeq(w, 4, h))
    IN  /\ h >= 4
        /\ SubSeq(w, 1, 3) = <<"O", "K", SP>>
        /\ \A k \in 4..h : w[k] \in Digits
        /\ Len(w) = h + 2 + n + 2
        /\ SubSeq(w, h + 3, h + 2 + n) = yaml
        /\ SubSeq(w, h + 3 + n, Len(w)) = CRLF

\* C28: for each of OkStats, OkStatsJob, OkStatsTube and OkListTubes whose
\* serialisation succeeds, encode returns Ok and appends OK, the number of
\* bytes of the YAML text, CRLF, the YAML text, CRLF; the number does not
\* count the final CRLF.
C28_OkLength ==
    \A i \in 1..Len(encoded) :
        OkSent(i) =>
            /\ encoded[i].res = "Ok"
            /\ ReadsAsOk(Appended(i, i), encoded[i].item.bytes)

\* A structured response with a YAML text of ten bytes was encoded behind
\* another response, as OK 10.
C28_Witness ==
    /\ Len(encoded) = 2
    /\ OkSent(2)
    /\ encoded[2].at > 0
    /\ Len(encoded[2].item.bytes) = 10
    /\ SubSeq(dst, encoded[2].at + 1, encoded[2].at + 7)
            = <<"O", "K", SP, "1", "0", CR, LF>>

\* The decode call just made found an empty buffer in the middle of a body.
BodyCallOnEmpty ==
    /\ call.st0.st = "ParseJob"
    /\ call.st0.remaining > 0
    /\ call.src0 = <<>>

\* Item j says the stream ended: the reader's None, or an IO error.
IsStreamEnd(j) == events[j].item.k \in {"End", "IO"}

\* C31: every PutChunk carries at least one byte: a decode call in ParseJob
\* with bytes of the body outstanding and an empty buffer returns no event,
\* and what follows the command of a put of 0 bytes is its PutEnd or the
\* EXPECTED_CRLF error (or the end of the stream), never a PutChunk.
C31_ChunkNotEmpty ==
    /\ \A j \in Items :
            IsEvent(j, "PutChunk") => Len(events[j].item.ev.data) >= 1
    /\ BodyCallOnEmpty => call.res = OkNone
    /\ \A i \in Items :
            (IsPut(i) /\ NBytes(events[i].item.ev.cmd) = 0 /\ i < Len(events))
            => \/ IsEvent(i + 1, "PutEnd")
               \/ events[i + 1].item = ErrClient("EXPECTED_CRLF")
               \/ IsStreamEnd(i + 1)

\* The first byte of a body of 2 came as a chunk of one byte, and the next
\* decode call, on the empty buffer it left, returned nothing.
C31_Witness ==
    /\ BodyCallOnEmpty
    /\ call.st0.remaining = 1
    /\ call.res = OkNone
    /\ Len(events) = 2
    /\ IsPut(1)
    /\ IsEvent(2, "PutChunk")
    /\ Len(events[2].item.ev.data) = 1

----------------------------------------------------------------------------
\* decode as a function: one decoder, in any of its states, called again and
\* again on a buffer that receives no new input.

MaxBuf == 3

\* The states a Decoder can be in.
DecoderStates ==
    {ParseCommand, DiscardToNewline} \cup {ParseJob(r) : r \in 0..MaxBody}

\* The buffers decode is called on: every short byte string with CR and LF in
\* it, whole command lines, and lines around the length limit.
Buffers ==
    SeqsUpTo({"a", CR, LF}, MaxBuf) \cup ShortLines
    \cup {PutLine(n) \o <<"a">> : n \in 0..MaxBody} \cup LongStreams

InitDecode ==
    /\ stream \in Buffers
    /\ pos = Len(stream)
    /\ buf = stream
    /\ dec \in DecoderStates
    /\ fr = [eof |-> FALSE, is_readable |-> TRUE, has_errored |-> FALSE]
    /\ events = <<>>
    /\ call = NoCall
    /\ spin = FALSE
    /\ pc = "decode"
    /\ sending = "-"
    /\ out = <<>>
    /\ cancel = FALSE
    /\ conn_result = "-"
    /\ result = "-"
    /\ InitNoServer
    /\ InitNoEncoder
    /\ InitNoRuntime

\* What a caller sees of a decode call.
DecodeItem(d) == IF d.res.k = "Some" THEN ItemOk(d.res.ev) ELSE d.res

\* decode(&mut src), called until it asks for more input; a call that
\* returns something and changes nothing would be repeated for ever.
DecodeCall ==
    /\ pc = "decode"
    /\ ~spin
    /\ UNCHANGED <<stream, pos, fr>>
    /\ LET d == Decode(dec, buf) IN
        /\ dec' = d.dec
        /\ buf' = d.src
        /\ call' = CallOf(d)
        /\ spin' = (d.res.k # "None" /\ d.dec = dec /\ d.src = buf)
        /\ events' = Append(events, Kept(DecodeItem(d)))
        /\ pc' = IF d.res.k = "None" THEN "decode_end" ELSE "decode"
    /\ UNCHANGED <<sending, out, cancel, conn_result, result>>
    /\ UNCHANGED broker
    /\ UNCHANGED encoding
    /\ UNCHANGED runtime

NextDecode == DecodeCall

SpecDecode == InitDecode /\ [][NextDecode]_vars

\* A decode call has been made.
Called == Len(events) >= 1

\* How many bytes of the buffer the last decode call consumed.
CallConsumed == Len(call.src0) - Len(call.src)

\* C32: a decode call that returns an event or an error consumes at least
\* one byte of the buffer or changes the decoder state, so that decode,
\* called again and again on a buffer that receives no input, comes to
\* return Ok(None) and never returns the same thing for ever.
C32_Progress ==
    /\ (Called /\ call.res.k # "None") =>
            (CallConsumed >= 1 \/ call.dec # call.st0)
    /\ ~spin

\* C33: a decode call that returns Ok(None), in ParseCommand, in ParseJob or
\* in DiscardToNewline, has consumed no byte of the buffer and has left the
\* decoder state as it was.
C33_NoneIsIdle ==
    (Called /\ call.res = OkNone) =>
        /\ call.src = call.src0
        /\ call.dec = call.st0
        /\ buf = call.src0
        /\ dec = call.st0

\* At the end of a body, with the CR of the terminator in the buffer and the
\* LF not yet there, decode asked for more input.
C33_Witness ==
    /\ Called
    /\ call.res = OkNone
    /\ call.st0 = ParseJob(0)
    /\ call.src0 = <<CR>>

\* decode called on d and src until it asks for more input (or repeats itself
\* without end): the items it returned after acc, and where it left off.
RECURSIVE DecodeRun(_, _, _)
DecodeRun(d, src, acc) ==
    LET r == Decode(d, src) IN
    IF r.res.k = "None"
    THEN [dec |-> d, src |-> src, items |-> acc]
    ELSE IF r.dec = d /\ r.src = src
    THEN [dec |-> d, src |-> src, items |-> Append(acc, DecodeItem(r))]
    ELSE DecodeRun(r.dec, r.src, Append(acc, DecodeItem(r)))

\* The whole stream handed to a new decoder in one piece.
OnePiece == DecodeRun(ParseCommand, stream, <<>>)

IsChunkItem(x) == x.k = "Some" /\ x.ev.t = "PutChunk"

\* What of a sequence of items does not depend on the number and sizes of
\* PutChunk and Discarded events: the Command events, the PutEnd events and
\* the Client errors in order, and between them the put bodies, each run of
\* chunks joined into one.
RECURSIVE Outcome(_)
Outcome(items) ==
    IF items = <<>> THEN <<>>
    ELSE LET h == items[1]
             rest == Outcome(Tail(items))
         IN  IF h.k \in {"End", "IO"} \/ (h.k = "Some" /\ h.ev.t = "Discarded")
             THEN rest
             ELSE IF IsChunkItem(h) /\ rest # <<>> /\ IsChunkItem(rest[1])
             THEN <<ItemOk(EvPutChunk(h.ev.data \o rest[1].ev.data))>>
                  \o Tail(rest)
             ELSE <<h>> \o rest

\* The items the reader has returned.
ItemsReturned == [j \in Items |-> events[j].item]

\* C34: however the stream is split into reads, once the reader has come to
\* rest it has returned the Command events, PutEnd events, Client errors and
\* put bodies that a decoder given the stream in one piece returns, and its
\* decoder is in the state that one is in.
C34_Segmentation ==
    AtRest =>
        /\ Outcome(ItemsReturned) = Outcome(OnePiece.items)
        /\ dec = OnePiece.dec

\* C36: after any sequence of put_ready, take_ready, put_buried, take_buried
\* and put_delayed on a TubeState, current_jobs_ready is the number of
\* entries of the ready map, current_jobs_buried that of the buried map and
\* current_jobs_delayed that of the delayed set, and no counter is below 0.
C36_Counters ==
    /\ Tube.stats.current_jobs_ready = Cardinality(DOMAIN Tube.ready)
    /\ Tube.stats.current_jobs_buried = Cardinality(DOMAIN Tube.buried)
    /\ Tube.stats.current_jobs_delayed = Cardinality(Tube.delayed)
    /\ Tube.stats.current_jobs_ready >= 0
    /\ Tube.stats.current_jobs_buried >= 0
    /\ Tube.stats.current_jobs_delayed >= 0

\* Two jobs were put in the ready map and one buried, the first ready job was
\* taken, and a further take_ready at its position has panicked: one ready
\* job and one buried job are counted.
C36_Witness ==
    /\ op.name = "take_ready"
    /\ op.ret = "panic"
    /\ op.arg = 0
    /\ Tube.ready_sn = 2
    /\ DOMAIN Tube.ready = {1}
    /\ Tube.stats.current_jobs_ready = 1
    /\ Tube.stats.current_jobs_buried = 1

----------------------------------------------------------------------------
\* main from the creation of the shutdown channel on: the accept loop, the
\* session tasks it spawns, and the wait for the channel to close.

MaxSessions == 4

\* The connections accept_loop can come to accept.
Sessions == 1..MaxSessions

\* The Sender that main moves into accept_loop.
AcceptLoop == 0

InitMain ==
    /\ tasks = [s \in Sessions |-> "-"]
    /\ holders = {AcceptLoop}
    /\ exit_code = "-"
    /\ cancel = FALSE
    /\ pc = "listening"
    /\ sending = "-"
    /\ out = <<>>
    /\ conn_result = "-"
    /\ result = "-"
    /\ stream = <<>>
    /\ InitFraming
    /\ InitNoServer
    /\ InitNoEncoder

\* A step of main, of accept_loop or of a task: nothing else changes.
MainStep ==
    /\ UNCHANGED <<sending, out, conn_result, result>>
    /\ UNCHANGED framing
    /\ UNCHANGED broker
    /\ UNCHANGED encoding

\* accept_loop returns: its Sender is dropped, main has the exit code and
\* goes on to shutdown_wait.recv().
AcceptLoopReturns(code) ==
    /\ pc' = "shutdown_wait"
    /\ holders' = holders \ {AcceptLoop}
    /\ exit_code' = code

\* The task main spawns for ctrl-c: cancel.cancel().
CtrlC ==
    /\ pc # "exit"
    /\ ~cancel
    /\ cancel' = TRUE
    /\ UNCHANGED <<pc, tasks, holders, exit_code>>
    /\ MainStep

\* info!(addr = %listener.local_addr()?, "listening")
Listening ==
    /\ pc = "listening"
    /\ pc' = "accept_loop"
    /\ UNCHANGED <<cancel, tasks, holders, exit_code>>
    /\ MainStep

ListeningErr ==
    /\ pc = "listening"
    /\ AcceptLoopReturns("FAILURE")
    /\ UNCHANGED <<cancel, tasks>>
    /\ MainStep

\* A session that never held a Sender.
SpawnedWithoutHold(h, s) == h

\* Who holds a Sender once do_client_loop has been spawned for connection
\* s with shutdown_hold.clone().
Spawned(h, s) == h \cup {s}

\* select! takes listener.accept(); Ok((conn, _)): the task is spawned.  (A
\* failed accept is logged and changes nothing.)
Accept(s) ==
    /\ pc = "accept_loop"
    /\ tasks[s] = "-"
    /\ tasks' = [tasks EXCEPT ![s] = "running"]
    /\ holders' = Spawned(holders, s)
    /\ UNCHANGED <<pc, cancel, exit_code>>
    /\ MainStep

\* select! takes cancel.cancelled(): return Ok(()).
AcceptCancelled ==
    /\ pc = "accept_loop"
    /\ cancel
    /\ AcceptLoopReturns("SUCCESS")
    /\ UNCHANGED <<cancel, tasks>>
    /\ MainStep

\* do_client_loop returns, by whichever way: its arguments are dropped,
\* _shutdown_hold among them, and the task has finished.
SessionEnds(s) ==
    /\ pc # "exit"
    /\ tasks[s] = "running"
    /\ tasks' = [tasks EXCEPT ![s] = "done"]
    /\ holders' = holders \ {s}
    /\ UNCHANGED <<pc, cancel, exit_code>>
    /\ MainStep

\* Receiver::recv on a channel nothing is ever sent on: ready, with None,
\* once no Sender is left.
RecvReady(h) == h = {}

\* shutdown_wait.recv().await completes; main returns exit_code.
ShutdownWait ==
    /\ pc = "shutdown_wait"
    /\ RecvReady(holders)
    /\ pc' = "exit"
    /\ UNCHANGED <<cancel, tasks, holders, exit_code>>
    /\ MainStep

NextMain ==
    \/ CtrlC
    \/ Listening
    \/ ListeningErr
    \/ \E s \in Sessions : Accept(s)
    \/ AcceptCancelled
    \/ \E s \in Sessions : SessionEnds(s)
    \/ ShutdownWait

SpecMain == InitMain /\ [][NextMain]_vars

\* main's task is woken and polled when the last Sender is dropped.
FairnessMain == WF_vars(ShutdownWait)

SpecMainLive == SpecMain /\ FairnessMain

\* A session task is running.
Running(s) == tasks[s] = "running"

\* C35: main returns only after accept_loop has returned and every session
\* task that was spawned has finished; while a session holds its clone of
\* shutdown_hold main is not past shutdown_wait.recv(), and once accept_loop
\* has returned and no session is left running main does return.
C35_Exit ==
    /\ [](pc = "exit" =>
            /\ exit_code # "-"
            /\ \A s \in Sessions : ~Running(s))
    /\ []((\E s \in Sessions : Running(s) /\ s \in holders) => pc # "exit")
    /\ [](\A s \in Sessions : Running(s) => s \in holders)
    /\ ((pc = "shutdown_wait" /\ \A s \in Sessions : ~Running(s))
            ~> pc = "exit")

\* main has returned after a shutdown signal: every connection had been
\* accepted, and every session has finished.
C35_Witness ==
    /\ pc = "exit"
    /\ exit_code = "SUCCESS"
    /\ \A s \in Sessions : tasks[s] = "done"
=============================================================================
